---- MODULE Spec2Model ----
(***************************************************************************)
(* Model of sheetmusic2midi: the MIDI generator (core/midi_generator.py),  *)
(* the staff detector (core/staff_detector.py), the symbol associator and  *)
(* pitch resolver (core/symbol_detector.py) and the converter pipeline     *)
(* (converter.py).                                                         *)
(*                                                                         *)
(* Encoding conventions                                                    *)
(*   - a Python str is a sequence of one-character strings                 *)
(*     ("C#4" is <<"C", "#", "4">>);                                       *)
(*   - Optional[str] is a sequence of length 0 (None) or 1 (the value);    *)
(*   - Optional[NoteDuration] is "None" or the member's name;              *)
(*   - NoteDuration.value is kept in sixteenths (value * 4), so that all   *)
(*     arithmetic stays in the integers.                                   *)
(***************************************************************************)
EXTENDS Integers, Sequences, FiniteSets, TLC

VARIABLES
    pc,              \* position of the running operation
    symbols,         \* symbols_to_midi_polyphonic: the argument
    ticks_per_beat,  \* MidiGenerator.ticks_per_beat
    musical_events,  \* local of symbols_to_midi_polyphonic
    event_groups,    \* local of symbols_to_midi_polyphonic
    gi,              \* index of the group the emit loop is at
    track,           \* the MidiTrack being built
    arg_note_name,   \* note_name_to_midi: the argument
    ret_midi_number, \* note_name_to_midi: the value returned
    arg_duration,    \* duration_to_ticks: the argument
    ret_ticks,       \* duration_to_ticks: the value returned
    arg_note_head,   \* calculate_pitch: the argument
    clef,            \* SheetMusicConverter.clef, passed to calculate_pitch
    ret_pitch,       \* calculate_pitch: the value returned
    arrays,          \* the image arrays in memory, named by their index
    binary_image,    \* SheetMusicConverter.binary_image (index in arrays)
    image_no_staff,  \* SheetMusicConverter.image_no_staff (0 is None)
    image_twice,     \* remove_staff_lines(image_no_staff) (0 is None)
    line_positions,  \* detect_staves: the rows detect_staff_lines returned
    staves,          \* StaffDetector.staves
    line_thickness,  \* StaffDetector.line_thickness (<<>> is None)
    ret_staves,      \* detect_staves: the value returned
    arg_y,           \* get_staff_position: the argument
    ret_staff_position, \* get_staff_position: the (staff, position) returned
    contours,        \* cv2.findContours(image_no_staff)
    vertical_lines,  \* contour boxes of the vertically opened image
    horizontal_lines, \* contour boxes of the horizontally opened image
    image_files,     \* batch_convert, convert_multipage: the image files
    file_index,      \* position of the loop over image_files (from 1)
    output_files,    \* batch_convert: the local output_files
    midi_files,      \* the MIDI files saved, by position of the input file
    all_symbols,      \* convert_multipage: the local all_symbols
    ret_time_signature, \* detect_time_signature: the value returned
    ret_key_signature   \* detect_key_signature: the value returned

midiVars == <<symbols, ticks_per_beat, musical_events, event_groups, gi, track>>

nameVars == <<arg_note_name, ret_midi_number>>

ticksVars == <<arg_duration, ret_ticks>>

pitchVars == <<arg_note_head, clef, ret_pitch>>

staffVars == <<arrays, binary_image, image_no_staff, image_twice,
               line_positions, staves, line_thickness, ret_staves,
               arg_y, ret_staff_position>>

detectVars == <<contours, vertical_lines, horizontal_lines,
                ret_time_signature, ret_key_signature>>

batchVars == <<image_files, file_index, output_files, midi_files, all_symbols>>

vars == <<pc, midiVars, nameVars, ticksVars, pitchVars, staffVars, detectVars, batchVars>>

\* what symbols_to_midi_polyphonic leaves alone
notMidiVars ==
    <<nameVars, ticksVars, pitchVars, staffVars, detectVars, batchVars>>

(***************************************************************************)
(* Bounds of the model                                                     *)
(***************************************************************************)
\* longest symbol list handed to symbols_to_midi_polyphonic
MaxSymbols == 3

\* longest run of '#' and 'b' in a note name handed to note_name_to_midi
MaxAccidentals == 2

\* staff positions handed to calculate_pitch are k / PositionSteps
PositionSteps == 8

\* size of the images handed to detect_staves on its own
ImageHeight == 52

ImageWidth == 6

(***************************************************************************)
(* Generic helpers                                                         *)
(***************************************************************************)
Max2(a, b) == IF a >= b THEN a ELSE b

Min2(a, b) == IF a <= b THEN a ELSE b

RECURSIVE SeqMax(_)
SeqMax(s) ==
    IF Len(s) = 1 THEN s[1] ELSE Max2(s[1], SeqMax(Tail(s)))

RECURSIVE SeqMin(_)
SeqMin(s) ==
    IF Len(s) = 1 THEN s[1] ELSE Min2(s[1], SeqMin(Tail(s)))

RECURSIVE CountIn(_, _)
CountIn(c, s) ==
    IF s = <<>> THEN 0
    ELSE (IF s[1] = c THEN 1 ELSE 0) + CountIn(c, Tail(s))

(***************************************************************************)
(* MidiGenerator.note_name_to_midi                                         *)
(***************************************************************************)
Digits == {"0", "1", "2", "3", "4", "5", "6", "7", "8", "9"}

DigitValue(c) ==
    CASE c = "0" -> 0 [] c = "1" -> 1 [] c = "2" -> 2 [] c = "3" -> 3
      [] c = "4" -> 4 [] c = "5" -> 5 [] c = "6" -> 6 [] c = "7" -> 7
      [] c = "8" -> 8 [] c = "9" -> 9

\* str.upper() on one character, for the characters of the model's alphabet
Upper(c) ==
    CASE c = "a" -> "A" [] c = "b" -> "B" [] c = "c" -> "C" [] c = "d" -> "D"
      [] c = "e" -> "E" [] c = "f" -> "F" [] c = "g" -> "G" [] c = "h" -> "H"
      [] OTHER -> c

base_notes ==
    [l \in {"C", "D", "E", "F", "G", "A", "B"} |->
        CASE l = "C" -> 0 [] l = "D" -> 2 [] l = "E" -> 4 [] l = "F" -> 5
          [] l = "G" -> 7 [] l = "A" -> 9 [] l = "B" -> 11]

note_name_to_midi_octave12(name) ==
    LET isDigit == name[Len(name)] \in Digits
        octave == IF isDigit THEN DigitValue(name[Len(name)]) ELSE 4
        note == IF isDigit THEN SubSeq(name, 1, Len(name) - 1)
                ELSE name
        base_note == Upper(note[1])
        accidental_part == Tail(note)
        semitone == base_notes[base_note]
                      + CountIn("#", accidental_part)
                      - CountIn("b", accidental_part)
        number == octave * 12 + semitone
    IN  IF Len(name) < 2 THEN 60
        ELSE IF base_note \notin DOMAIN base_notes THEN 60
        ELSE Max2(0, Min2(127, number))

note_name_to_midi(name) ==
    LET isDigit == name[Len(name)] \in Digits
        octave == IF isDigit THEN DigitValue(name[Len(name)]) ELSE 4
        note == IF isDigit THEN SubSeq(name, 1, Len(name) - 1)
                ELSE name
        base_note == Upper(note[1])
        accidental_part == Tail(note)
        semitone == base_notes[base_note]
                      + CountIn("#", accidental_part)
                      - CountIn("b", accidental_part)
        number == (octave + 1) * 12 + semitone
    IN  IF Len(name) < 2 THEN 60
        ELSE IF base_note \notin DOMAIN base_notes THEN 60
        ELSE Max2(0, Min2(127, number))

(***************************************************************************)
(* MidiGenerator.duration_to_ticks                                         *)
(***************************************************************************)
\* NoteDuration.value * 4
NoteDurationValue16(d) ==
    CASE d = "WHOLE" -> 16 [] d = "HALF" -> 8 [] d = "QUARTER" -> 4
      [] d = "EIGHTH" -> 2 [] d = "SIXTEENTH" -> 1

\* int(quarter_notes * ticks_per_beat): the product is never negative, so
\* int() is the floor
duration_to_ticks(duration, tpb) ==
    LET d == IF duration = "None" THEN "QUARTER" ELSE duration
    IN  (NoteDurationValue16(d) * tpb) \div 4

(***************************************************************************)
(* SymbolDetector.calculate_pitch                                          *)
(***************************************************************************)
\* a staff position is the rational num / den (den > 0): the quotient
\* relative_y / line_spacing of get_staff_position
Rational(num, den) == [num |-> num, den |-> den]

\* Python's round() of num / den: to the nearest integer, a tie to the even
\* one
PyRound(num, den) ==
    LET q == num \div den
        r == num % den
    IN  IF 2 * r < den THEN q
        ELSE IF 2 * r > den THEN q + 1
        ELSE IF q % 2 = 0 THEN q ELSE q + 1

\* int() of num / den: towards zero
PyTrunc(num, den) ==
    IF num >= 0 THEN num \div den ELSE -((-num) \div den)

DigitChar(n) ==
    CASE n = 0 -> "0" [] n = 1 -> "1" [] n = 2 -> "2" [] n = 3 -> "3"
      [] n = 4 -> "4" [] n = 5 -> "5" [] n = 6 -> "6" [] n = 7 -> "7"
      [] n = 8 -> "8" [] n = 9 -> "9"

\* str(n) as an f-string writes it
RECURSIVE IntToStr(_)
IntToStr(n) ==
    IF n < 0 THEN <<"-">> \o IntToStr(-n)
    ELSE IF n < 10 THEN <<DigitChar(n)>>
    ELSE IntToStr(n \div 10) \o <<DigitChar(n % 10)>>

note_names ==
    << <<"C">>, <<"C", "#">>, <<"D">>, <<"D", "#">>, <<"E">>, <<"F">>,
       <<"F", "#">>, <<"G">>, <<"G", "#">>, <<"A">>, <<"A", "#">>, <<"B">> >>

calculate_pitch_truncating(head, c) ==
    IF head.staff_position = <<>> THEN <<"C", "4">>
    ELSE LET position == head.staff_position[1]
             offset == PyTrunc(2 * (4 * position.den - position.num),
                               position.den)
             midi_note == IF c = "treble" THEN 64 + offset ELSE 43 + offset
             octave == (midi_note \div 12) - 1
         IN  note_names[(midi_note % 12) + 1] \o IntToStr(octave)

calculate_pitch(head, c) ==
    IF head.staff_position = <<>> THEN <<"C", "4">>
    ELSE LET position == head.staff_position[1]
             offset == PyRound(2 * (4 * position.den - position.num),
                               position.den)
             midi_note == IF c = "treble" THEN 64 + offset ELSE 43 + offset
             octave == (midi_note \div 12) - 1
         IN  note_names[(midi_note % 12) + 1] \o IntToStr(octave)

\* a rewrite that would keep the '#' of the chromatic name
apply_accidental_keeping_sharp(pitch, accidental) ==
    IF accidental = "NONE" \/ Len(pitch) < 2 THEN pitch
    ELSE LET note == SubSeq(pitch, 1, Len(pitch) - 1)
             octave == pitch[Len(pitch)]
         IN  CASE accidental = "SHARP" -> note \o <<"#", octave>>
               [] accidental = "FLAT" -> note \o <<"b", octave>>
               [] accidental = "DOUBLE_SHARP" -> note \o <<"#", "#", octave>>
               [] accidental = "DOUBLE_FLAT" -> note \o <<"b", "b", octave>>

apply_accidental_to_pitch(pitch, accidental) ==
    IF accidental = "NONE" \/ Len(pitch) < 2 THEN pitch
    ELSE LET note_base == pitch[1]
             octave == pitch[Len(pitch)]
         IN  CASE accidental = "SHARP" -> <<note_base, "#", octave>>
               [] accidental = "FLAT" -> <<note_base, "b", octave>>
               [] accidental = "DOUBLE_SHARP" -> <<note_base, "#", "#", octave>>
               [] accidental = "DOUBLE_FLAT" -> <<note_base, "b", "b", octave>>

\* the MusicalSymbol detect_note_heads builds for an accepted contour
NoteHead(x, y, w, h, staff_position) ==
    [ symbol_type |-> "note_head", x |-> x, y |-> y, width |-> w,
      height |-> h, staff_position |-> staff_position,
      note_duration |-> "None", pitch |-> <<>>, accidental |-> "NONE",
      is_beamed |-> FALSE, beam_group_id |-> <<>> ]

(***************************************************************************)
(* Binary images: height, width and the set of foreground pixels           *)
(* <<row, column>> (value 255; every other pixel is 0)                     *)
(***************************************************************************)
Image(h, w, fg) == [height |-> h, width |-> w, fg |-> fg]

SetMax(S) == CHOOSE m \in S : \A x \in S : x <= m

SetMin(S) == CHOOSE m \in S : \A x \in S : m <= x

RECURSIVE SortedSeq(_)
SortedSeq(S) ==
    IF S = {} THEN <<>> ELSE <<SetMin(S)>> \o SortedSeq(S \ {SetMin(S)})

RECURSIVE SumSeq(_)
SumSeq(s) == IF s = <<>> THEN 0 ELSE s[1] + SumSeq(Tail(s))

\* np.sum(binary_image, axis=1)[y] / 255
RowCount(img, y) == Cardinality({p \in img.fg : p[1] = y})

\* np.sum(binary_image[top:bottom+1, :], axis=0)[x] / 255
ColCount(img, x, top, bottom) ==
    Cardinality({p \in img.fg : p[2] = x /\ top <= p[1] /\ p[1] <= bottom})

(***************************************************************************)
(* StaffDetector.detect_staff_lines                                        *)
(***************************************************************************)
\* lines 69-82: consecutive rows at most 2 apart are one line, whose y is
\* int(np.mean(group))
RECURSIVE LineGroupLoop(_, _, _)
LineGroupLoop(rest, current_group, positions) ==
    IF rest = <<>>
    THEN Append(positions, SumSeq(current_group) \div Len(current_group))
    ELSE IF rest[1] - current_group[Len(current_group)] <= 2
    THEN LineGroupLoop(Tail(rest), Append(current_group, rest[1]),
                       positions)
    ELSE LineGroupLoop(Tail(rest), <<rest[1]>>,
                       Append(positions,
                              SumSeq(current_group) \div Len(current_group)))

\* projection[y] / max_val > 0.7 is 10 * RowCount > 7 * max RowCount
detect_staff_lines(img) ==
    LET rows == 0..(img.height - 1)
        max_val == SetMax({RowCount(img, y) : y \in rows})
        potential_lines ==
            SortedSeq({y \in rows : /\ max_val > 0
                                    /\ 10 * RowCount(img, y) > 7 * max_val})
    IN  IF potential_lines = <<>> THEN <<>>
        ELSE LineGroupLoop(Tail(potential_lines), <<potential_lines[1]>>, <<>>)

(***************************************************************************)
(* StaffDetector.estimate_line_thickness                                   *)
(***************************************************************************)
\* int(np.median(values)) of a non-empty list of non-negative integers
RECURSIVE InsertInt(_, _)
InsertInt(v, sorted) ==
    IF sorted = <<>> THEN <<v>>
    ELSE IF v <= sorted[1] THEN <<v>> \o sorted
    ELSE <<sorted[1]>> \o InsertInt(v, Tail(sorted))

RECURSIVE SortInts(_)
SortInts(values) ==
    IF values = <<>> THEN <<>>
    ELSE InsertInt(values[1], SortInts(Tail(values)))

IntMedian(values) ==
    LET sorted == SortInts(values)
        n == Len(values)
    IN  IF n % 2 = 1 THEN sorted[(n + 1) \div 2]
        ELSE (sorted[n \div 2] + sorted[n \div 2 + 1]) \div 2

\* the new self.line_thickness (None is <<>>): a call with no line returns
\* 2 and stores nothing
estimate_line_thickness(img, rows, old_thickness) ==
    LET first == SubSeq(rows, 1, Min2(5, Len(rows)))
        x == img.width \div 2
        thickness(y) ==
            Cardinality({check_y \in Max2(0, y - 5)..(Min2(img.height, y + 5) - 1) :
                            <<check_y, x>> \in img.fg})
        thicknesses ==
            SelectSeq([i \in 1..Len(first) |-> thickness(first[i])],
                      LAMBDA n : n > 0)
    IN  IF rows = <<>> THEN old_thickness
        ELSE IF thicknesses # <<>> THEN <<IntMedian(thicknesses)>>
        ELSE <<2>>

(***************************************************************************)
(* StaffDetector.group_lines_into_staves                                   *)
(***************************************************************************)
Staff(lines, line_spacing, x_start, x_end) ==
    [lines |-> lines, line_spacing |-> line_spacing,
     x_start |-> x_start, x_end |-> x_end]

\* np.std(spacings) < np.mean(spacings) * 0.3 for the 4 gaps: with S their
\* sum and Q the sum of their squares, std = sqrt(4Q - S^2) / 4 and
\* mean = S / 4, so the test is 400 Q < 109 S^2
SpacingConsistent(spacings) ==
    LET S == SumSeq(spacings)
        Q == SumSeq([j \in 1..4 |-> spacings[j] * spacings[j]])
    IN  400 * Q < 109 * S * S

avg_spacing_of_5(spacings) == Rational(SumSeq(spacings), 5)

\* np.mean(spacings)
avg_spacing(spacings) == Rational(SumSeq(spacings), 4)

NextWindowAfterRejectionBy5(i) == i + 5

\* line 180
NextWindowAfterRejection(i) == i + 1

\* lines 143-180, i counting from 0 as in the code
RECURSIVE WindowLoop(_, _, _, _)
WindowLoop(rows, img, i, found) ==
    IF i > Len(rows) - 5 THEN found
    ELSE LET staff_lines == SubSeq(rows, i + 1, i + 5)
             spacings == [j \in 1..4 |-> staff_lines[j + 1] - staff_lines[j]]
             staff_top == staff_lines[1]
             staff_bottom == staff_lines[5]
             columns == 0..(img.width - 1)
             max_sum == SetMax({ColCount(img, x, staff_top, staff_bottom) :
                                   x \in columns})
             x_positions ==
                 {x \in columns :
                     10 * ColCount(img, x, staff_top, staff_bottom) > max_sum}
             staff == Staff(staff_lines, avg_spacing(spacings),
                            SetMin(x_positions), SetMax(x_positions))
         IN  IF SpacingConsistent(spacings)
             THEN WindowLoop(rows, img, i + 5,
                             IF x_positions # {} THEN Append(found, staff)
                             ELSE found)
             ELSE WindowLoop(rows, img,
                             NextWindowAfterRejection(i), found)

\* the value returned and the new self.staves: fewer than 5 lines return []
\* and leave self.staves as it was
group_lines_into_staves(rows, img, old_staves) ==
    IF Len(rows) < 5
    THEN [returned |-> <<>>, staves |-> old_staves]
    ELSE LET found == WindowLoop(rows, img, 0, <<>>)
         IN  [returned |-> found, staves |-> found]

(***************************************************************************)
(* StaffDetector.remove_staff_lines                                        *)
(***************************************************************************)
\* pixels zeroed by result[top:bottom, staff.x_start:staff.x_end] = 0
ErasedPixels(img, staff_list, thickness) ==
    {p \in img.fg :
        \E s \in 1..Len(staff_list) : \E l \in 1..5 :
            /\ Max2(0, staff_list[s].lines[l] - thickness) <= p[1]
            /\ p[1] < Min2(img.height, staff_list[s].lines[l] + thickness + 1)
            /\ staff_list[s].x_start <= p[2]
            /\ p[2] < staff_list[s].x_end}

\* self.line_thickness after the call: None becomes 2
ThicknessOrDefault(thickness) == IF thickness = <<>> THEN <<2>> ELSE thickness

remove_staff_lines_in_place(arrs, src, staff_list, thickness) ==
    LET t == ThicknessOrDefault(thickness)[1]
    IN  [ arrays |-> [arrs EXCEPT ![src].fg =
                          @ \ ErasedPixels(arrs[src], staff_list, t)],
          result |-> src ]

\* arrs is the memory of image arrays, src the array passed in; the result
\* is a new array (binary_image.copy()) with the line bands zeroed
remove_staff_lines(arrs, src, staff_list, thickness) ==
    LET t == ThicknessOrDefault(thickness)[1]
        result == Len(arrs) + 1
    IN  [ arrays |-> Append(arrs, [arrs[src] EXCEPT !.fg =
                                      @ \ ErasedPixels(arrs[src], staff_list, t)]),
          result |-> result ]

(***************************************************************************)
(* StaffDetector.get_staff_position                                        *)
(***************************************************************************)
\* (staff, position), <<>> for None; position = relative_y / line_spacing
\* a lookup that would measure the position from the bottom line
RECURSIVE get_staff_position_from_bottom(_, _)
get_staff_position_from_bottom(staff_list, y) ==
    IF staff_list = <<>> THEN [staff |-> <<>>, position |-> <<>>]
    ELSE LET staff == staff_list[1]
         IN  IF staff.lines[1] <= y /\ y <= staff.lines[5]
             THEN [staff |-> <<staff>>,
                   position |->
                       <<Rational((staff.lines[5] - y) * staff.line_spacing.den,
                                  staff.line_spacing.num)>>]
             ELSE get_staff_position_from_bottom(Tail(staff_list), y)

RECURSIVE get_staff_position(_, _)
get_staff_position(staff_list, y) ==
    IF staff_list = <<>> THEN [staff |-> <<>>, position |-> <<>>]
    ELSE LET staff == staff_list[1]
         IN  IF staff.lines[1] <= y /\ y <= staff.lines[5]
             THEN [staff |-> <<staff>>,
                   position |->
                       <<Rational((y - staff.lines[1]) * staff.line_spacing.den,
                                  staff.line_spacing.num)>>]
             ELSE get_staff_position(Tail(staff_list), y)

(***************************************************************************)
(* MidiGenerator.symbols_to_midi_polyphonic                                *)
(***************************************************************************)
\* a list of rest types that would take the accidentals in as well
RestSymbolTypesAndAccidentals ==
    {"whole_rest", "half_rest", "quarter_rest", "eighth_rest", "sharp",
     "flat", "natural"}

RestSymbolTypes == {"whole_rest", "half_rest", "quarter_rest", "eighth_rest"}

Msg(type, note, time) == [type |-> type, note |-> note, time |-> time]

\* the four messages appended before the events are looked at
TrackHeader ==
    << Msg("track_name", 0, 0), Msg("set_tempo", 0, 0),
       Msg("time_signature", 0, 0), Msg("program_change", 0, 0) >>

\* lines 186-192: ('note', s) for a pitched symbol, ('rest', s) for a rest
RECURSIVE CollectMusicalEvents(_)
CollectMusicalEvents(syms) ==
    IF syms = <<>> THEN <<>>
    ELSE LET s == syms[1]
             rest == CollectMusicalEvents(Tail(syms))
         IN  IF s.pitch # <<>> THEN <<[kind |-> "note", sym |-> s]>> \o rest
             ELSE IF s.symbol_type \in RestSymbolTypes
                  THEN <<[kind |-> "rest", sym |-> s]>> \o rest
             ELSE rest

\* list.sort(key=lambda e: e[1].x): a stable sort by x
RECURSIVE InsertByX(_, _)
InsertByX(e, sorted) ==
    IF sorted = <<>> THEN <<e>>
    ELSE IF e.sym.x < sorted[1].sym.x THEN <<e>> \o sorted
    ELSE <<sorted[1]>> \o InsertByX(e, Tail(sorted))

RECURSIVE SortByX(_)
SortByX(events) ==
    IF events = <<>> THEN <<>>
    ELSE InsertByX(events[Len(events)],
                   SortByX(SubSeq(events, 1, Len(events) - 1)))

\* lines 204-214: the loop over musical_events[1:], groups anchored at
\* their first event
\* a loop that would measure from the event added last
RECURSIVE GroupLoopChained(_, _, _, _)
GroupLoopChained(rest, groups, current_group, threshold) ==
    IF rest = <<>> THEN Append(groups, current_group)
    ELSE LET event == rest[1]
         IN  IF event.sym.x - current_group[Len(current_group)].sym.x
                   <= threshold
             THEN GroupLoopChained(Tail(rest), groups,
                                   Append(current_group, event), threshold)
             ELSE GroupLoopChained(Tail(rest), Append(groups, current_group),
                                   <<event>>, threshold)

RECURSIVE GroupLoop(_, _, _, _)
GroupLoop(rest, groups, current_group, threshold) ==
    IF rest = <<>> THEN Append(groups, current_group)
    ELSE LET event == rest[1]
         IN  IF event.sym.x - current_group[1].sym.x <= threshold
             THEN GroupLoop(Tail(rest), groups,
                            Append(current_group, event), threshold)
             ELSE GroupLoop(Tail(rest), Append(groups, current_group),
                            <<event>>, threshold)

GroupEvents(events, threshold) ==
    GroupLoop(Tail(events), <<>>, <<events[1]>>, threshold)

notes_in_group(group) == SelectSeq(group, LAMBDA e : e.kind = "note")

rests_in_group(group) == SelectSeq(group, LAMBDA e : e.kind = "rest")

NoteMessages(type, notes) ==
    [i \in 1..Len(notes) |->
        Msg(type, note_name_to_midi(notes[i].sym.pitch[1]), 0)]

min_duration(notes, tpb) ==
    SeqMin([i \in 1..Len(notes) |->
               duration_to_ticks(notes[i].sym.note_duration, tpb)])

\* lines 228-230
max_duration(notes, tpb) ==
    SeqMax([i \in 1..Len(notes) |->
               duration_to_ticks(notes[i].sym.note_duration, tpb)])

\* lines 238-241: the first note_off among the last len(notes) messages
\* gets the group's time
SetFirstNoteOffUnset(trk, n, ticks) == trk

SetFirstNoteOff(trk, n, ticks) ==
    LET cand == {i \in (Len(trk) - n + 1)..Len(trk) : trk[i].type = "note_off"}
    IN  IF cand = {} THEN trk
        ELSE LET first == CHOOSE i \in cand : \A j \in cand : i <= j
             IN  [trk EXCEPT ![first].time = ticks]

\* a chord that would turn off its first note only
EmitChordMessagesOneOff(trk, notes, tpb) ==
    SetFirstNoteOff(trk \o NoteMessages("note_on", notes)
                        \o NoteMessages("note_off", <<notes[1]>>),
                    Len(notes), max_duration(notes, tpb))

\* lines 221-241
EmitChordMessages(trk, notes, tpb) ==
    SetFirstNoteOff(trk \o NoteMessages("note_on", notes)
                        \o NoteMessages("note_off", notes),
                    Len(notes), max_duration(notes, tpb))

\* a rest group that would add the time of each of its rests
AddRestTimeOfAll(trk, rests, tpb) ==
    IF Len(trk) > 0
    THEN [trk EXCEPT ![Len(trk)].time =
              @ + SumSeq([i \in 1..Len(rests) |->
                            duration_to_ticks(rests[i].sym.note_duration,
                                              tpb)])]
    ELSE trk

AddRestTimeSkipped(trk, rests, tpb) == trk

\* lines 243-253
AddRestTime(trk, rests, tpb) ==
    IF Len(trk) > 0
    THEN [trk EXCEPT ![Len(trk)].time =
              @ + duration_to_ticks(rests[1].sym.note_duration, tpb)]
    ELSE trk

(***************************************************************************)
(* Variables of the operations that are not running                        *)
(***************************************************************************)
NameIdle == arg_note_name = <<>> /\ ret_midi_number = -1

TicksIdle == arg_duration = "None" /\ ret_ticks = -1

PitchIdle == arg_note_head = <<>> /\ clef = "treble" /\ ret_pitch = <<>>

\* StaffDetector.__init__ and no image loaded
StaffIdle ==
    /\ arrays = <<>>
    /\ binary_image = 0
    /\ image_no_staff = 0
    /\ image_twice = 0
    /\ line_positions = <<>>
    /\ staves = <<>>
    /\ line_thickness = <<>>
    /\ ret_staves = <<>>
    /\ arg_y = -1
    /\ ret_staff_position = [staff |-> <<>>, position |-> <<>>]

DetectIdle ==
    /\ contours = <<>>
    /\ vertical_lines = <<>>
    /\ horizontal_lines = <<>>
    /\ ret_time_signature = <<>>
    /\ ret_key_signature = <<>>

\* no batch and no multi-page conversion running
BatchIdle ==
    /\ image_files = <<>>
    /\ file_index = 0
    /\ output_files = <<>>
    /\ midi_files = <<>>
    /\ all_symbols = <<>>

MidiIdle ==
    /\ symbols = <<>>
    /\ ticks_per_beat = 480
    /\ musical_events = <<>>
    /\ event_groups = <<>>
    /\ gi = 0
    /\ track = <<>>

(***************************************************************************)
(* Inputs of symbols_to_midi_polyphonic                                    *)
(***************************************************************************)
\* default of the time_threshold parameter (convert passes none)
time_threshold == 20

PitchC4 == <<"C", "4">>

PitchE4 == <<"E", "4">>

Sym(type, x, pitch, duration) ==
    [symbol_type |-> type, x |-> x, pitch |-> pitch, note_duration |-> duration]

\* x positions: 100 and 105 share a group; 125 is exactly time_threshold
\* from 105 but beyond it from the anchor 100; 160 is beyond the threshold
\* of 125
XChoices == {100, 105, 125, 160}

SymbolsAt(x) ==
    { Sym("quarter_note", x, <<PitchC4>>, "QUARTER"),
      Sym("sixteenth_note", x, <<PitchE4>>, "SIXTEENTH"),
      Sym("quarter_rest", x, <<>>, "QUARTER"),
      Sym("half_rest", x, <<>>, "HALF"),
      Sym("sharp", x, <<>>, "None") }

SymbolChoices == UNION {SymbolsAt(x) : x \in XChoices}

TicksChoices == {3, 4, 480}

IsAscending(s) == \A i \in 1..(Len(s) - 1) : s[i].x <= s[i + 1].x

IsDescending(s) == \A i \in 1..(Len(s) - 1) : s[i].x >= s[i + 1].x

\* detect_symbols hands the list over sorted by x; descending lists make
\* the sort of line 195 do its work
SymbolLists ==
    UNION { {s \in [1..n -> SymbolChoices] : IsAscending(s) \/ IsDescending(s)}
            : n \in 0..MaxSymbols }

(***************************************************************************)
(* symbols_to_midi_polyphonic, step by step                                *)
(***************************************************************************)
InitMidi ==
    /\ pc = "start"
    /\ symbols \in SymbolLists
    /\ ticks_per_beat \in TicksChoices
    /\ musical_events = <<>>
    /\ event_groups = <<>>
    /\ gi = 0
    /\ track = <<>>
    /\ NameIdle
    /\ TicksIdle
    /\ PitchIdle
    /\ StaffIdle
    /\ DetectIdle
    /\ BatchIdle

\* lines 166-195: header, filter, sort
CollectEvents ==
    /\ pc = "start"
    /\ track' = TrackHeader
    /\ musical_events' = SortByX(CollectMusicalEvents(symbols))
    /\ pc' = "collected"
    /\ UNCHANGED <<symbols, ticks_per_beat, event_groups, gi>>
    /\ UNCHANGED notMidiVars

\* lines 197-201: nothing to play
EmptyTrack ==
    /\ pc = "collected"
    /\ musical_events = <<>>
    /\ track' = Append(track, Msg("end_of_track", 0, 0))
    /\ pc' = "done"
    /\ UNCHANGED <<symbols, ticks_per_beat, musical_events, event_groups, gi>>
    /\ UNCHANGED notMidiVars

\* lines 203-214
GroupEventsStep ==
    /\ pc = "collected"
    /\ musical_events # <<>>
    /\ event_groups' = GroupEvents(musical_events, time_threshold)
    /\ gi' = 1
    /\ pc' = "emit"
    /\ UNCHANGED <<symbols, ticks_per_beat, musical_events, track>>
    /\ UNCHANGED notMidiVars

\* lines 217-241: one iteration of the loop, a group with a pitched note
EmitChord ==
    /\ pc = "emit"
    /\ gi <= Len(event_groups)
    /\ notes_in_group(event_groups[gi]) # <<>>
    /\ track' = EmitChordMessages(track, notes_in_group(event_groups[gi]),
                                  ticks_per_beat)
    /\ gi' = gi + 1
    /\ UNCHANGED <<pc, symbols, ticks_per_beat, musical_events, event_groups>>
    /\ UNCHANGED notMidiVars

\* lines 243-253: one iteration of the loop, a group of rests only
EmitRest ==
    /\ pc = "emit"
    /\ gi <= Len(event_groups)
    /\ notes_in_group(event_groups[gi]) = <<>>
    /\ rests_in_group(event_groups[gi]) # <<>>
    /\ track' = AddRestTime(track, rests_in_group(event_groups[gi]),
                            ticks_per_beat)
    /\ gi' = gi + 1
    /\ UNCHANGED <<pc, symbols, ticks_per_beat, musical_events, event_groups>>
    /\ UNCHANGED notMidiVars

\* lines 255-262
EndOfTrack ==
    /\ pc = "emit"
    /\ gi > Len(event_groups)
    /\ track' = Append(track, Msg("end_of_track", 0, 0))
    /\ pc' = "done"
    /\ UNCHANGED <<symbols, ticks_per_beat, musical_events, event_groups, gi>>
    /\ UNCHANGED notMidiVars

NextMidi ==
    \/ CollectEvents
    \/ EmptyTrack
    \/ GroupEventsStep
    \/ EmitChord
    \/ EmitRest
    \/ EndOfTrack

SpecMidi == InitMidi /\ [][NextMidi]_vars

(***************************************************************************)
(* Reading the track                                                       *)
(***************************************************************************)
IsSounding(group) == notes_in_group(group) # <<>>

RECURSIVE NotesBefore(_, _)
NotesBefore(groups, k) ==
    IF k <= 1 THEN 0
    ELSE Len(notes_in_group(groups[k - 1])) + NotesBefore(groups, k - 1)

\* index in the track of the first message of group k (a sounding group)
ChordStart(k) == Len(TrackHeader) + 2 * NotesBefore(event_groups, k) + 1

RECURSIVE SumTimes(_, _, _)
SumTimes(trk, from, to) ==
    IF from > to THEN 0 ELSE trk[to].time + SumTimes(trk, from, to - 1)

\* absolute time of message i: the sum of the delta times up to it
AbsTime(trk, i) == SumTimes(trk, 1, i)

Onset(k) == AbsTime(track, ChordStart(k))

TicksOfNotes(notes) ==
    {duration_to_ticks(notes[i].sym.note_duration, ticks_per_beat) :
        i \in 1..Len(notes)}

LongestTicks(notes) ==
    CHOOSE m \in TicksOfNotes(notes) : \A t \in TicksOfNotes(notes) : t <= m

FirstRestTicks(group) ==
    duration_to_ticks(rests_in_group(group)[1].sym.note_duration, ticks_per_beat)

RECURSIVE RestTicksBetween(_, _)
RestTicksBetween(i, j) ==
    IF j <= i + 1 THEN 0
    ELSE FirstRestTicks(event_groups[j - 1]) + RestTicksBetween(i, j - 1)

CountType(trk, type, upto) ==
    Cardinality({i \in 1..upto : trk[i].type = type})

\* notes left sounding after the first upto messages
SoundingAfter(trk, upto) ==
    CountType(trk, "note_on", upto) - CountType(trk, "note_off", upto)

Emitted(k) == pc \in {"emit", "done"} /\ k \in 1..Len(event_groups) /\ k < gi

\* groups i < j are sounding and every group between them is rest-only
ConsecutiveSounding(i, j) ==
    /\ i < j
    /\ IsSounding(event_groups[i])
    /\ IsSounding(event_groups[j])
    /\ \A r \in (i + 1)..(j - 1) : ~IsSounding(event_groups[r])

(***************************************************************************)
(* C1: when the loop has emitted a group with at least one pitched note    *)
(* (and no rest-only group has been handled after it), the group's part of *)
(* the track is: one note-on per note, each with delta time 0, then one    *)
(* note-off per note, exactly one of which carries the longest note's      *)
(* ticks while the others carry 0; the group's delta times sum to its      *)
(* longest note.                                                           *)
(***************************************************************************)
C1_ChordEmission ==
    \A k \in 1..Len(event_groups) :
        ( /\ Emitted(k)
          /\ IsSounding(event_groups[k])
          /\ (Emitted(k + 1) => IsSounding(event_groups[k + 1])) )
        =>
        LET notes == notes_in_group(event_groups[k])
            n == Len(notes)
            s == ChordStart(k)
            m == LongestTicks(notes)
        IN  /\ Len(track) >= s + 2 * n - 1
            /\ \A i \in 1..n :
                  track[s + i - 1] =
                      Msg("note_on", note_name_to_midi(notes[i].sym.pitch[1]), 0)
            /\ \A i \in 1..n :
                  /\ track[s + n + i - 1].type = "note_off"
                  /\ track[s + n + i - 1].note =
                        note_name_to_midi(notes[i].sym.pitch[1])
            /\ \E j \in 1..n :
                  /\ track[s + n + j - 1].time = m
                  /\ \A i \in (1..n) \ {j} : track[s + n + i - 1].time = 0
            /\ SumTimes(track, s, s + 2 * n - 1) = m

\* two notes at x = 100 and x = 105 of different durations form one chord
C1_Witness ==
    /\ pc = "done"
    /\ ticks_per_beat = 480
    /\ Len(event_groups) = 1
    /\ Len(event_groups[1]) = 2
    /\ event_groups[1][1].sym = Sym("sixteenth_note", 100, <<PitchE4>>, "SIXTEENTH")
    /\ event_groups[1][2].sym = Sym("quarter_note", 105, <<PitchC4>>, "QUARTER")
    /\ track[5] = Msg("note_on", 64, 0)
    /\ track[6] = Msg("note_on", 60, 0)
    /\ track[7] = Msg("note_off", 64, 480)
    /\ track[8] = Msg("note_off", 60, 0)

(***************************************************************************)
(* C2: rest-only groups add no note message, and between two sounding      *)
(* groups with only rest-only groups between them the onsets differ by the *)
(* first group's longest note plus the ticks of each rest-only group (of   *)
(* its first rest): with one rest-only group between, next onset =         *)
(* previous onset + previous longest note + duration_to_ticks(rest).       *)
(***************************************************************************)
C2_RestAdvancesOnset ==
    /\ pc \in {"emit", "done"} =>
          /\ CountType(track, "note_on", Len(track))
                = NotesBefore(event_groups, gi)
          /\ CountType(track, "note_off", Len(track))
                = NotesBefore(event_groups, gi)
    /\ \A i, j \in 1..Len(event_groups) :
          (Emitted(j) /\ ConsecutiveSounding(i, j)) =>
              Onset(j) = Onset(i)
                           + LongestTicks(notes_in_group(event_groups[i]))
                           + RestTicksBetween(i, j)

\* note, quarter rest, note at 480 ticks per beat: 480 ticks of delay
C2_Witness ==
    /\ pc = "done"
    /\ ticks_per_beat = 480
    /\ Len(event_groups) = 3
    /\ IsSounding(event_groups[1])
    /\ ~IsSounding(event_groups[2])
    /\ event_groups[2][1].sym.note_duration = "QUARTER"
    /\ IsSounding(event_groups[3])
    /\ Onset(3) = Onset(1) + LongestTicks(notes_in_group(event_groups[1])) + 480

(***************************************************************************)
(* C3: the ticks of a rest-only group are a silence.  The ticks are held   *)
(* by the delta time of the track's last message at the time the group is  *)
(* handled, so every note-on before that message must have had its         *)
(* note-off before that message.                                           *)
(***************************************************************************)
C3_RestIsSilence ==
    ( /\ pc = "emit"
      /\ gi > 1
      /\ ~IsSounding(event_groups[gi - 1])
      /\ FirstRestTicks(event_groups[gi - 1]) > 0 )
    => SoundingAfter(track, Len(track) - 1) = 0

(***************************************************************************)
(* C4 as claimed: in the finished track the onsets of consecutive sounding *)
(* groups are strictly increasing, for every ticks_per_beat, and the       *)
(* note-ons of one group share one absolute time.                          *)
(***************************************************************************)
SameOnsetInGroup ==
    \A k \in 1..Len(event_groups) :
        (Emitted(k) /\ IsSounding(event_groups[k])) =>
            \A i \in 1..Len(notes_in_group(event_groups[k])) :
                /\ track[ChordStart(k) + i - 1].type = "note_on"
                /\ AbsTime(track, ChordStart(k) + i - 1) = Onset(k)

Letters == {"C", "D", "E", "F", "G", "A", "B"}

RECURSIVE AccidentalRuns(_)
AccidentalRuns(n) ==
    IF n = 0 THEN {<<>>}
    ELSE LET shorter == AccidentalRuns(n - 1)
         IN  shorter \cup
             {Append(r, a) : r \in {s \in shorter : Len(s) = n - 1},
                             a \in {"#", "b"}}

\* letter, run of accidentals, octave digit
WellFormedNames ==
    { <<l>> \o r \o <<d>> :
        l \in Letters, r \in AccidentalRuns(MaxAccidentals), d \in Digits }

\* names the parser falls back on: empty, too short, no octave digit,
\* unknown letter, lower-case letter
OtherNames ==
    { <<>>, <<"C">>, <<"4">>, <<"C", "#">>, <<"H", "4">>, <<"c", "4">>,
      <<"b", "b", "3">>, <<"#", "4">> }

InitName ==
    /\ pc = "name_call"
    /\ arg_note_name \in WellFormedNames \cup OtherNames
    /\ ret_midi_number = -1
    /\ MidiIdle
    /\ TicksIdle
    /\ PitchIdle
    /\ StaffIdle
    /\ DetectIdle
    /\ BatchIdle

NoteNameToMidi ==
    /\ pc = "name_call"
    /\ ret_midi_number' = note_name_to_midi(arg_note_name)
    /\ pc' = "name_done"
    /\ UNCHANGED <<arg_note_name, midiVars, ticksVars, pitchVars, staffVars,
                   detectVars, batchVars>>

NextName == NoteNameToMidi

SpecName == InitName /\ [][NextName]_vars

(***************************************************************************)
(* C5: for a letter of C D E F G A B, 0 to MaxAccidentals characters '#'   *)
(* or 'b' and an octave digit, note_name_to_midi returns                   *)
(* (octave + 1) * 12 + semitone of the letter + number of '#' - number of  *)
(* 'b', clamped to 0..127; C4 is 60, A4 is 69, C5 is 72.                   *)
(***************************************************************************)
LetterSemitone(l) ==
    CASE l = "C" -> 0 [] l = "D" -> 2 [] l = "E" -> 4 [] l = "F" -> 5
      [] l = "G" -> 7 [] l = "A" -> 9 [] l = "B" -> 11

Clamped(n) == IF n < 0 THEN 0 ELSE IF n > 127 THEN 127 ELSE n

ExpectedMidi(name) ==
    LET run == SubSeq(name, 2, Len(name) - 1)
        sharps == Cardinality({i \in 1..Len(run) : run[i] = "#"})
        flats == Cardinality({i \in 1..Len(run) : run[i] = "b"})
    IN  Clamped((DigitValue(name[Len(name)]) + 1) * 12
                  + LetterSemitone(name[1]) + sharps - flats)

C5_NoteNameToMidi ==
    pc = "name_done" =>
        /\ arg_note_name \in WellFormedNames =>
              /\ ret_midi_number = ExpectedMidi(arg_note_name)
              /\ ret_midi_number \in 0..127
        /\ arg_note_name = <<"C", "4">> => ret_midi_number = 60
        /\ arg_note_name = <<"A", "4">> => ret_midi_number = 69
        /\ arg_note_name = <<"C", "5">> => ret_midi_number = 72

\* B##9 is 133 before the clamp
C5_Witness ==
    /\ pc = "name_done"
    /\ arg_note_name = <<"B", "#", "#", "9">>
    /\ ret_midi_number = 127

\* messages of the given type and note number among the first n of the track
CountOf(type, note, n) ==
    Cardinality({i \in 1..n : track[i].type = type /\ track[i].note = note})

NoteNumbers ==
    {track[i].note : i \in {j \in 1..Len(track) :
                               track[j].type \in {"note_on", "note_off"}}}

\* message m is a note-on that follows a note-off found from message i on:
\* it opens a later group than the one message i belongs to
OpensLaterGroup(i, m) ==
    /\ track[m].type = "note_on"
    /\ \E q \in i..m : track[q].type = "note_off"

\* C28: for each note number the note-offs never outnumber the note-ons at
\* any prefix of the track, every note-on is followed by a note-off of the
\* same number before the next group's first note-on, and at end_of_track
\* no note is left sounding.
C28_NotesAreBalanced ==
    pc \in {"emit", "done"} =>
        /\ \A n \in 0..Len(track), note \in NoteNumbers :
              CountOf("note_off", note, n) <= CountOf("note_on", note, n)
        /\ \A i \in 1..Len(track) :
              track[i].type = "note_on" =>
                  \E j \in (i + 1)..Len(track) :
                     /\ track[j].type = "note_off"
                     /\ track[j].note = track[i].note
                     /\ \A m \in i..j : ~OpensLaterGroup(i, m)
        /\ pc = "done" =>
              /\ track[Len(track)].type = "end_of_track"
              /\ \A note \in NoteNumbers :
                    CountOf("note_off", note, Len(track))
                        = CountOf("note_on", note, Len(track))

\* a finished track with a chord of two different notes and a later note
C28_Witness ==
    /\ pc = "done"
    /\ Len(event_groups) = 2
    /\ Len(notes_in_group(event_groups[1])) = 2
    /\ Len(notes_in_group(event_groups[2])) = 1
    /\ Cardinality(NoteNumbers) >= 2
    /\ track[5].note # track[6].note
    /\ CountOf("note_off", track[6].note, Len(track)) >= 1

\* the time group k is said to take: its longest note when it has a
\* note, else its first rest
TicksOfGroup(k) ==
    IF IsSounding(event_groups[k])
    THEN LongestTicks(notes_in_group(event_groups[k]))
    ELSE FirstRestTicks(event_groups[k])

RECURSIVE TicksOfGroupsUpTo(_)
TicksOfGroupsUpTo(k) ==
    IF k < 1 THEN 0 ELSE TicksOfGroup(k) + TicksOfGroupsUpTo(k - 1)

\* C29: the delta times of the track sum to the longest note of each group
\* that has a note plus the first rest of each rest-only group; a rest in a
\* group with a note and the further rests of a rest-only group add
\* nothing, and the rest-only groups before the first note add their ticks
\* before the first note-on.
C29_TotalTime ==
    pc \in {"emit", "done"} =>
        /\ SumTimes(track, 1, Len(track)) = TicksOfGroupsUpTo(gi - 1)
        /\ \A k \in 1..Len(event_groups) :
              ( /\ Emitted(k)
                /\ IsSounding(event_groups[k])
                /\ \A j \in 1..(k - 1) : ~IsSounding(event_groups[j]) )
              => /\ track[ChordStart(k)].type = "note_on"
                 /\ Onset(k) = TicksOfGroupsUpTo(k - 1)

\* a quarter rest and a half rest in one group, then a quarter note: 480
\* ticks before the note-on and 960 in all
C29_Witness ==
    /\ pc = "done"
    /\ ticks_per_beat = 480
    /\ Len(event_groups) = 2
    /\ Len(rests_in_group(event_groups[1])) = 2
    /\ event_groups[1][1].sym.note_duration = "QUARTER"
    /\ event_groups[1][2].sym.note_duration = "HALF"
    /\ IsSounding(event_groups[2])
    /\ event_groups[2][1].sym.note_duration = "QUARTER"
    /\ Onset(2) = 480
    /\ SumTimes(track, 1, Len(track)) = 960

(***************************************************************************)
(* calculate_pitch as an operation: one call on one note head              *)
(***************************************************************************)
\* class Accidental: NATURAL has the value of NONE and is the same member
Accidentals == {"NONE", "SHARP", "FLAT", "DOUBLE_SHARP", "DOUBLE_FLAT"}

StaffPositions ==
    {<<>>} \cup {<<Rational(k, PositionSteps)>> : k \in 0..(4 * PositionSteps)}

InitPitch ==
    /\ pc = "pitch_call"
    /\ arg_note_head \in
          {[NoteHead(100, 50, 12, 10, sp) EXCEPT !.accidental = a] :
              sp \in StaffPositions, a \in Accidentals}
    /\ clef \in {"treble", "bass"}
    /\ ret_pitch = <<>>
    /\ MidiIdle
    /\ NameIdle
    /\ TicksIdle
    /\ StaffIdle
    /\ DetectIdle
    /\ BatchIdle

CalculatePitch ==
    /\ pc = "pitch_call"
    /\ ret_pitch' = calculate_pitch(arg_note_head, clef)
    /\ pc' = "pitch_done"
    /\ UNCHANGED <<arg_note_head, clef, midiVars, nameVars, ticksVars,
                   staffVars, detectVars, batchVars>>

\* detect_symbols lines 739-749 for the head whose base pitch was computed
AssignPitch ==
    /\ pc = "pitch_done"
    /\ arg_note_head' =
          [arg_note_head EXCEPT !.pitch =
              IF arg_note_head.accidental # "NONE"
              THEN <<apply_accidental_to_pitch(ret_pitch,
                                               arg_note_head.accidental)>>
              ELSE <<ret_pitch>>]
    /\ pc' = "pitch_assigned"
    /\ UNCHANGED <<clef, ret_pitch, midiVars, nameVars, ticksVars,
                   staffVars, detectVars, batchVars>>

\* midi_generator.py line 224: the pitch written on the head is encoded
EncodePitch ==
    /\ pc = "pitch_assigned"
    /\ arg_note_name' = arg_note_head.pitch[1]
    /\ ret_midi_number' = note_name_to_midi(arg_note_head.pitch[1])
    /\ pc' = "pitch_encoded"
    /\ UNCHANGED <<midiVars, ticksVars, pitchVars, staffVars, detectVars,
                   batchVars>>

NextPitch == CalculatePitch \/ AssignPitch \/ EncodePitch

SpecPitch == InitPitch /\ [][NextPitch]_vars

(***************************************************************************)
(* C6: for a head with staff position p in [0, 4], calculate_pitch names   *)
(* the MIDI number 64 + round((4 - p) * 2) (treble) or 43 + round((4 - p)  *)
(* * 2) (bass) through the chromatic table with octave = midi div 12 - 1,  *)
(* round being the nearest integer with a tie going to the even one; the   *)
(* bottom line p = 4 is E4 in treble and G2 in bass; a head with no staff  *)
(* position is C4.                                                         *)
(***************************************************************************)
Abs(n) == IF n < 0 THEN -n ELSE n

\* the integer nearest to num / den, the even one of two equally near
NearestInteger(num, den) ==
    CHOOSE r \in -1..9 :
        \/ 2 * Abs(num - r * den) < den
        \/ 2 * Abs(num - r * den) = den /\ r % 2 = 0

ChromaticName(midi) ==
    LET table == [i \in 0..11 |->
                    CASE i = 0 -> <<"C">>       [] i = 1 -> <<"C", "#">>
                      [] i = 2 -> <<"D">>       [] i = 3 -> <<"D", "#">>
                      [] i = 4 -> <<"E">>       [] i = 5 -> <<"F">>
                      [] i = 6 -> <<"F", "#">>  [] i = 7 -> <<"G">>
                      [] i = 8 -> <<"G", "#">>  [] i = 9 -> <<"A">>
                      [] i = 10 -> <<"A", "#">> [] i = 11 -> <<"B">>]
    IN  table[midi % 12] \o <<DigitChar((midi \div 12) - 1)>>

ResolverMidi(position, c) ==
    (IF c = "treble" THEN 64 ELSE 43)
        + NearestInteger(2 * (4 * position.den - position.num), position.den)

C6_CalculatePitch ==
    pc = "pitch_done" =>
        /\ arg_note_head.staff_position = <<>> => ret_pitch = <<"C", "4">>
        /\ arg_note_head.staff_position # <<>> =>
              LET position == arg_note_head.staff_position[1]
              IN  /\ ret_pitch = ChromaticName(ResolverMidi(position, clef))
                  /\ (position.num = 4 * position.den /\ clef = "treble")
                        => ret_pitch = <<"E", "4">>
                  /\ (position.num = 4 * position.den /\ clef = "bass")
                        => ret_pitch = <<"G", "2">>

\* p = 3.625: (4 - p) * 2 = 0.75 rounds to 1, MIDI 65, F4
C6_Witness ==
    /\ pc = "pitch_done"
    /\ clef = "treble"
    /\ arg_note_head.staff_position # <<>>
    /\ 8 * arg_note_head.staff_position[1].num
          = 29 * arg_note_head.staff_position[1].den
    /\ ret_pitch = <<"F", "4">>

\* the letter of a chromatic name and the octave that follows the name
BaseLetter(pitch) == pitch[1]

OctaveOf(pitch) ==
    SubSeq(pitch, IF pitch[2] = "#" THEN 3 ELSE 2, Len(pitch))

AccidentalMark(accidental) ==
    CASE accidental = "SHARP" -> <<"#">>
      [] accidental = "FLAT" -> <<"b">>
      [] accidental = "DOUBLE_SHARP" -> <<"#", "#">>
      [] accidental = "DOUBLE_FLAT" -> <<"b", "b">>

\* C25: for a head whose accidental is sharp, flat, double-sharp or
\* double-flat the final pitch is the base letter of the staff-derived
\* pitch, then '#', 'b', '##' or 'bb', then the unchanged octave (a '#' of
\* the chromatic name is replaced, not stacked); for none or natural the
\* staff-derived pitch is kept unchanged.
C25_AccidentalRewritesPitch ==
    pc = "pitch_assigned" =>
        arg_note_head.pitch =
            IF arg_note_head.accidental = "NONE" THEN <<ret_pitch>>
            ELSE << <<BaseLetter(ret_pitch)>>
                       \o AccidentalMark(arg_note_head.accidental)
                       \o OctaveOf(ret_pitch) >>

\* a flat on a head whose staff-derived pitch is F#4
C25_Witness ==
    /\ pc = "pitch_assigned"
    /\ ret_pitch = <<"F", "#", "4">>
    /\ arg_note_head.accidental = "FLAT"
    /\ arg_note_head.pitch = << <<"F", "b", "4">> >>

\* the notes of the lines and spaces of a staff from the bottom line up
TrebleStaffNotes ==
    << <<"E", "4">>, <<"F", "4">>, <<"G", "4">>, <<"A", "4">>, <<"B", "4">>,
       <<"C", "5">>, <<"D", "5">>, <<"E", "5">>, <<"F", "5">> >>

BassStaffNotes ==
    << <<"G", "2">>, <<"A", "2">>, <<"B", "2">>, <<"C", "3">>, <<"D", "3">>,
       <<"E", "3">>, <<"F", "3">>, <<"G", "3">>, <<"A", "3">> >>

\* C27: with the treble clef calculate_pitch maps the lines from bottom to
\* top (positions 4, 3, 2, 1, 0) to E4, G4, B4, D5, F5 and the spaces
\* (positions 3.5, 2.5, 1.5, 0.5) to F4, A4, C5, E5; with the bass clef the
\* lines map to G2, B2, D3, F3, A3 and the spaces to A2, C3, E3, G3.
C27_LinesAndSpaces ==
    (pc = "pitch_done" /\ arg_note_head.staff_position # <<>>) =>
        LET position == arg_note_head.staff_position[1]
            twice == 2 * (4 * position.den - position.num)
        IN  twice % position.den = 0 =>
                ret_pitch =
                    IF clef = "treble"
                    THEN TrebleStaffNotes[(twice \div position.den) + 1]
                    ELSE BassStaffNotes[(twice \div position.den) + 1]

\* C30: for every staff position in [0, 4] and either clef, the MIDI
\* encoder's note_name_to_midi gives for the pitch name calculate_pitch
\* wrote on a head without accidental the number the resolver computed,
\* 64 or 43 plus round((4 - position) * 2): the name loses nothing.
C30_NameKeepsMidiNumber ==
    ( /\ pc = "pitch_encoded"
      /\ arg_note_head.accidental = "NONE"
      /\ arg_note_head.staff_position # <<>> )
    => /\ arg_note_name = ret_pitch
       /\ ret_midi_number =
             ResolverMidi(arg_note_head.staff_position[1], clef)

\* p = 0.25 in the bass clef: (4 - p) * 2 = 7.5 rounds to 8, MIDI 51, D#3
C30_Witness ==
    /\ pc = "pitch_encoded"
    /\ clef = "bass"
    /\ arg_note_head.accidental = "NONE"
    /\ arg_note_head.staff_position # <<>>
    /\ 4 * arg_note_head.staff_position[1].num
          = arg_note_head.staff_position[1].den
    /\ arg_note_name = <<"D", "#", "3">>
    /\ ret_midi_number = 51

(***************************************************************************)
(* The staff detector on its own: detect_staves, then remove_staff_lines   *)
(* as convert calls them, then remove_staff_lines on its own result        *)
(***************************************************************************)
EvenRows(n, first, gap) == {first + k * gap : k \in 0..(n - 1)}

\* rows at which a line starts: none, one staff (gap 4 and 7), 4 lines, 11
\* even lines, two staves with one line between them, 5 uneven lines
LineLayouts ==
    { {}, EvenRows(5, 2, 4), EvenRows(5, 1, 7), EvenRows(4, 2, 4),
      EvenRows(11, 1, 4),
      EvenRows(5, 1, 4) \cup {23} \cup EvenRows(5, 32, 4),
      {1, 5, 9, 13, 24}, {1, 14, 27, 34, 41}, {1, 6, 10, 15, 19} }

\* first and last column of the lines; the second misses the middle column
\* estimate_line_thickness samples
LineExtents == { <<1, 4>>, <<0, 1>> }

\* foreground pixels that belong to no line
BlobPixels == { <<11, 2>>, <<11, 5>>, <<51, 0>> }

StaffImage(layout, thick, extent, blobs) ==
    Image(ImageHeight, ImageWidth,
          {<<y + d, x>> : y \in layout, d \in 0..(thick - 1),
                          x \in extent[1]..extent[2]}
             \cup blobs)

StaffImages ==
    { StaffImage(layout, thick, extent, blobs) :
        layout \in LineLayouts, thick \in {1, 2}, extent \in LineExtents,
        blobs \in SUBSET BlobPixels }

InitStaff ==
    /\ pc = "loaded"
    /\ arrays \in {<<img>> : img \in StaffImages}
    /\ binary_image = 1
    /\ image_no_staff = 0
    /\ image_twice = 0
    /\ line_positions = <<>>
    /\ staves = <<>>
    /\ line_thickness = <<>>
    /\ ret_staves = <<>>
    /\ arg_y = -1
    /\ ret_staff_position = [staff |-> <<>>, position |-> <<>>]
    /\ MidiIdle
    /\ NameIdle
    /\ TicksIdle
    /\ PitchIdle
    /\ DetectIdle
    /\ BatchIdle

\* StaffDetector.detect_staves
DetectStaves ==
    /\ pc = "loaded"
    /\ LET img == arrays[binary_image]
           found_lines == detect_staff_lines(img)
           grouped == group_lines_into_staves(found_lines, img, staves)
       IN  /\ line_positions' = found_lines
           /\ line_thickness' =
                  estimate_line_thickness(img, found_lines, line_thickness)
           /\ staves' = grouped.staves
           /\ ret_staves' = grouped.returned
    /\ pc' = "detected"
    /\ UNCHANGED <<arrays, binary_image, image_no_staff, image_twice, arg_y,
                   ret_staff_position>>
    /\ UNCHANGED <<midiVars, nameVars, ticksVars, pitchVars, detectVars,
                   batchVars>>

\* converter.py line 73
RemoveStaffLines ==
    /\ pc = "detected"
    /\ LET removed == remove_staff_lines(arrays, binary_image, staves,
                                         line_thickness)
       IN  /\ arrays' = removed.arrays
           /\ image_no_staff' = removed.result
    /\ line_thickness' = ThicknessOrDefault(line_thickness)
    /\ pc' = "removed"
    /\ UNCHANGED <<binary_image, image_twice, line_positions, staves,
                   ret_staves, arg_y, ret_staff_position>>
    /\ UNCHANGED <<midiVars, nameVars, ticksVars, pitchVars, detectVars,
                   batchVars>>

\* remove_staff_lines applied to the image it returned
RemoveStaffLinesAgain ==
    /\ pc = "removed"
    /\ LET removed == remove_staff_lines(arrays, image_no_staff, staves,
                                         line_thickness)
       IN  /\ arrays' = removed.arrays
           /\ image_twice' = removed.result
    /\ line_thickness' = ThicknessOrDefault(line_thickness)
    /\ pc' = "removed_again"
    /\ UNCHANGED <<binary_image, image_no_staff, line_positions, staves,
                   ret_staves, arg_y, ret_staff_position>>
    /\ UNCHANGED <<midiVars, nameVars, ticksVars, pitchVars, detectVars,
                   batchVars>>

\* StaffDetector.get_staff_position called on a row of the image
GetStaffPosition ==
    /\ pc = "detected"
    /\ \E y \in 0..(arrays[binary_image].height - 1) :
          /\ arg_y' = y
          /\ ret_staff_position' = get_staff_position(staves, y)
    /\ pc' = "position_done"
    /\ UNCHANGED <<arrays, binary_image, image_no_staff, image_twice,
                   line_positions, staves, line_thickness, ret_staves>>
    /\ UNCHANGED <<midiVars, nameVars, ticksVars, pitchVars, detectVars,
                   batchVars>>

NextStaff ==
    \/ DetectStaves
    \/ RemoveStaffLines
    \/ RemoveStaffLinesAgain
    \/ GetStaffPosition

SpecStaff == InitStaff /\ [][NextStaff]_vars

EvenlySpaced(rows) ==
    \A i \in 1..(Len(rows) - 2) :
        rows[i + 1] - rows[i] = rows[i + 2] - rows[i + 1]

Gaps(rows) == [j \in 1..(Len(rows) - 1) |-> rows[j + 1] - rows[j]]

(***************************************************************************)
(* C8: when the candidate line rows are exactly 5 evenly spaced rows,      *)
(* group_lines_into_staves returns exactly one Staff, whose lines are      *)
(* those 5 rows and whose line_spacing equals the uniform gap.             *)
(***************************************************************************)
C8_FiveEvenRowsOneStaff ==
    (pc = "detected" /\ Len(line_positions) = 5 /\ EvenlySpaced(line_positions))
        => /\ Len(ret_staves) = 1
           /\ ret_staves[1].lines = line_positions
           /\ ret_staves[1].line_spacing.num =
                  (line_positions[2] - line_positions[1])
                      * ret_staves[1].line_spacing.den

C8_Witness ==
    /\ pc = "detected"
    /\ Len(line_positions) = 5
    /\ EvenlySpaced(line_positions)
    /\ line_positions[2] - line_positions[1] = 7
    /\ Len(ret_staves) = 1

\* the staves returned that start below the fifth candidate row
TrailingStaves ==
    SelectSeq(ret_staves, LAMBDA s : s.lines[1] > line_positions[5])

(***************************************************************************)
(* C9 as stated: when the candidate rows are 11 evenly spaced rows, the    *)
(* sixth being the extra one, group_lines_into_staves returns exactly one  *)
(* staff after the first 5 rows, and it is the staff of the last 5 rows.   *)
(***************************************************************************)
C9_ElevenEvenRows ==
    (pc = "detected" /\ Len(line_positions) = 11 /\ EvenlySpaced(line_positions))
        => /\ Len(TrailingStaves) = 1
           /\ TrailingStaves[1].lines = SubSeq(line_positions, 7, 11)

(***************************************************************************)
(* C9 amended: when the candidate rows are 11 rows of which the first 5    *)
(* and the last 5 are each evenly spaced and the window of rows 6 to 10    *)
(* fails the spacing tolerance, group_lines_into_staves returns two        *)
(* staves, the first 5 rows and, after the rejected window is retried one  *)
(* row further, the last 5 rows.                                           *)
(***************************************************************************)
C9_RetryRecoversTrailingStaff ==
    ( /\ pc = "detected"
      /\ Len(line_positions) = 11
      /\ EvenlySpaced(SubSeq(line_positions, 1, 5))
      /\ EvenlySpaced(SubSeq(line_positions, 7, 11))
      /\ ~SpacingConsistent(Gaps(SubSeq(line_positions, 6, 10))) )
        => /\ Len(ret_staves) = 2
           /\ ret_staves[1].lines = SubSeq(line_positions, 1, 5)
           /\ Len(TrailingStaves) = 1
           /\ TrailingStaves[1].lines = SubSeq(line_positions, 7, 11)

C9_Witness ==
    /\ pc = "detected"
    /\ Len(line_positions) = 11
    /\ EvenlySpaced(SubSeq(line_positions, 1, 5))
    /\ EvenlySpaced(SubSeq(line_positions, 7, 11))
    /\ ~SpacingConsistent(Gaps(SubSeq(line_positions, 6, 10)))
    /\ Len(ret_staves) = 2

\* row y is within 2 rows of a line of a stored staff
NearStaffLine(y) ==
    \E s \in 1..Len(staves) : \E l \in 1..5 :
        staves[s].lines[l] - 2 <= y /\ y <= staves[s].lines[l] + 2

OutsideLines(img) == {p \in img.fg : ~NearStaffLine(p[1])}

(***************************************************************************)
(* C10: a call of remove_staff_lines with line_thickness 2 returns an      *)
(* image that agrees with the image passed in at every pixel whose row is  *)
(* further than 2 rows from every line of every stored staff, returns a    *)
(* new array and leaves the array passed in as it was; and the call on     *)
(* its own result returns an image equal to that result.                   *)
(***************************************************************************)
C10_RemoveStaffLinesFrame ==
    [][ /\ (pc = "detected" /\ pc' = "removed" /\ line_thickness' = <<2>>)
            => /\ arrays'[image_no_staff'].height = arrays[binary_image].height
               /\ arrays'[image_no_staff'].width = arrays[binary_image].width
               /\ OutsideLines(arrays'[image_no_staff'])
                      = OutsideLines(arrays[binary_image])
               /\ image_no_staff' # binary_image
               /\ binary_image' = binary_image
               /\ arrays'[binary_image] = arrays[binary_image]
        /\ (pc = "removed" /\ pc' = "removed_again" /\ line_thickness = <<2>>)
            => /\ arrays'[image_twice'] = arrays[image_no_staff]
               /\ arrays'[image_no_staff'] = arrays[image_no_staff]
      ]_vars

C10_Witness ==
    /\ pc = "removed_again"
    /\ line_thickness = <<2>>
    /\ staves # <<>>
    /\ arrays[image_no_staff] # arrays[binary_image]
    /\ OutsideLines(arrays[image_no_staff]) # {}
    /\ arrays[image_twice] = arrays[image_no_staff]

\* C19: the first window of 5 lines becomes a Staff whenever the standard
\* deviation of its 4 gaps is at most 30% of their mean, equality included
\* (with S the sum of the gaps and Q the sum of their squares:
\* 400 Q <= 109 S^2), and a window beyond the tolerance gives no Staff and
\* no error.
C19_ToleranceIncludesEquality ==
    pc = "detected" /\ Len(line_positions) >= 5 =>
        LET window == SubSeq(line_positions, 1, 5)
            S == SumSeq(Gaps(window))
            Q == SumSeq([j \in 1..4 |-> Gaps(window)[j] * Gaps(window)[j]])
            accepted == ret_staves # <<>> /\ ret_staves[1].lines = window
        IN  (400 * Q <= 109 * S * S) <=> accepted


\* C20: in the image remove_staff_lines returned, for every stored staff
\* and each of its 5 lines, no foreground pixel is left in the rows
\* line_y - line_thickness .. line_y + line_thickness and the columns
\* x_start .. x_end of the staff.
C20_LineBandsAreErased ==
    pc = "removed" =>
        \A s \in 1..Len(staves) : \A l \in 1..5 :
            \A p \in arrays[image_no_staff].fg :
                ~ /\ staves[s].lines[l] - line_thickness[1] <= p[1]
                  /\ p[1] <= staves[s].lines[l] + line_thickness[1]
                  /\ staves[s].x_start <= p[2]
                  /\ p[2] <= staves[s].x_end


\* the stored staves whose rows top..bottom hold y, in stored order
StavesHolding(y) ==
    SelectSeq(staves, LAMBDA st : st.lines[1] <= y /\ y <= st.lines[5])

\* C21: get_staff_position(y) returns the first stored staff whose rows
\* top..bottom hold y, with the position (y - top) / line_spacing, which
\* lies in [0, 4], is 0 on the top line and 4 on the bottom line; for a y
\* that no stored staff holds it returns no staff and no position.
C21_StaffPosition ==
    pc = "position_done" =>
        IF StavesHolding(arg_y) = <<>>
        THEN ret_staff_position = [staff |-> <<>>, position |-> <<>>]
        ELSE LET st == StavesHolding(arg_y)[1]
                 position == ret_staff_position.position[1]
             IN  /\ ret_staff_position.staff = <<st>>
                 /\ position.den > 0
                 /\ position.num * st.line_spacing.num
                       = (arg_y - st.lines[1]) * st.line_spacing.den
                         * position.den
                 /\ 0 <= position.num
                 /\ position.num <= 4 * position.den
                 /\ arg_y = st.lines[1] => position.num = 0
                 /\ arg_y = st.lines[5] => position.num = 4 * position.den

\* a row in the second of two stored staves, between two of its lines
C21_Witness ==
    /\ pc = "position_done"
    /\ Len(staves) = 2
    /\ ret_staff_position.staff = <<staves[2]>>
    /\ ret_staff_position.position[1].num * 2
          = 3 * ret_staff_position.position[1].den

(***************************************************************************)
(* SymbolDetector: the contours cv2 finds in image_no_staff are inputs; a  *)
(* contour is its bounding box, its area and the outcome of each pixel     *)
(* test the detectors make on it                                           *)
(***************************************************************************)
\* circular: perimeter > 0 and circularity > 0.3; dense: pixel_density >
\* 0.5 or density_orig > 0.2; peaks: peaks >= 2; bottom_heavy:
\* bottom_density > top_density * 1.2
Contour(x, y, w, h, area, circular, dense, peaks, bottom_heavy) ==
    [ x |-> x, y |-> y, w |-> w, h |-> h, area |-> area,
      circular |-> circular, dense |-> dense, peaks |-> peaks,
      bottom_heavy |-> bottom_heavy ]

\* a constructor whose pitch would default to a note name
MusicalSymbolPitched(type, x, y, w, h, staff_position, duration, accidental) ==
    [ NoteHead(x, y, w, h, staff_position) EXCEPT
          !.symbol_type = type,
          !.note_duration = duration,
          !.accidental = accidental,
          !.pitch = << <<"C", "4">> >> ]

MusicalSymbol(type, x, y, w, h, staff_position, duration, accidental) ==
    [ NoteHead(x, y, w, h, staff_position) EXCEPT
          !.symbol_type = type,
          !.note_duration = duration,
          !.accidental = accidental ]

center_x(s) == s.x + s.width \div 2

center_y(s) == s.y + s.height \div 2

\* staff_pos of a contour; None without staves
StaffPositionOf(staff_list, c) ==
    IF staff_list = <<>> THEN <<>>
    ELSE get_staff_position(staff_list, c.y + c.h \div 2).position

\* list.sort(key=lambda s: s.x): a stable sort by x
RECURSIVE InsertSymbolByX(_, _)
InsertSymbolByX(s, sorted) ==
    IF sorted = <<>> THEN <<s>>
    ELSE IF s.x < sorted[1].x THEN <<s>> \o sorted
    ELSE <<sorted[1]>> \o InsertSymbolByX(s, Tail(sorted))

RECURSIVE SortSymbolsByX(_)
SortSymbolsByX(syms) ==
    IF syms = <<>> THEN <<>>
    ELSE InsertSymbolByX(syms[Len(syms)],
                         SortSymbolsByX(SubSeq(syms, 1, Len(syms) - 1)))

RECURSIVE Flatten(_)
Flatten(lists) ==
    IF lists = <<>> THEN <<>> ELSE lists[1] \o Flatten(Tail(lists))

\* the filters of detect_note_heads: 0.4 <= w / h <= 2.5 in integers
IsNoteHeadContour(c) ==
    /\ ~(c.area < 10 \/ c.area > 1000)
    /\ c.h > 0
    /\ 2 * c.h <= 5 * c.w
    /\ 2 * c.w <= 5 * c.h
    /\ c.circular
    /\ c.dense

detect_note_heads(cs, staff_list) ==
    LET accepted == SelectSeq(cs, IsNoteHeadContour)
    IN  SortSymbolsByX(
            [i \in 1..Len(accepted) |->
                NoteHead(accepted[i].x, accepted[i].y, accepted[i].w,
                         accepted[i].h,
                         StaffPositionOf(staff_list, accepted[i]))])

\* boxes are <<x, y, w, h>>
detect_stems(boxes) ==
    SelectSeq(boxes, LAMBDA b : /\ b[3] <= 5 /\ b[4] >= 10
                                /\ b[3] > 0 /\ b[4] >= 3 * b[3])

\* a test that would ask the stem's span to hold the head's bottom edge
HasStemOverBottomEdge(head, stems) ==
    \E i \in 1..Len(stems) :
        LET stem_top == stems[i][2]
            stem_bottom == stems[i][2] + stems[i][4]
        IN  /\ Abs(stems[i][1] - head.x) < head.width
            /\ \/ stem_top <= center_y(head) /\ center_y(head) <= stem_bottom
               \/ /\ stem_top <= head.y + head.height
                  /\ head.y + head.height <= stem_bottom

HasStem(head, stems) ==
    \E i \in 1..Len(stems) :
        LET stem_top == stems[i][2]
            stem_bottom == stems[i][2] + stems[i][4]
        IN  /\ Abs(stems[i][1] - head.x) < head.width
            /\ \/ stem_top <= center_y(head) /\ center_y(head) <= stem_bottom
               \/ /\ head.y <= stem_bottom
                  /\ stem_bottom <= head.y + head.height

StemlessDurationBoth(head) ==
    IF head.width > 15 /\ head.height > 15 THEN "WHOLE" ELSE "HALF"

\* lines 271-277
StemlessDuration(head) ==
    IF head.width > 15 \/ head.height > 15 THEN "WHOLE" ELSE "HALF"

NoteSymbolType(duration) ==
    CASE duration = "WHOLE" -> "whole_note"
      [] duration = "HALF" -> "half_note"
      [] duration = "QUARTER" -> "quarter_note"
      [] duration = "EIGHTH" -> "eighth_note"

associate_stems_with_heads(note_heads, stems) ==
    [i \in 1..Len(note_heads) |->
        LET duration == IF HasStem(note_heads[i], stems) THEN "QUARTER"
                        ELSE StemlessDuration(note_heads[i])
        IN  [note_heads[i] EXCEPT !.symbol_type = NoteSymbolType(duration),
                                  !.note_duration = duration]]

detect_beams(boxes) ==
    SelectSeq(boxes, LAMBDA b : /\ b[3] >= 15 /\ b[4] <= 5
                                /\ b[4] > 0 /\ b[3] >= 4 * b[4])

\* a loop that would make every head under a beam an eighth
RECURSIVE BeamLoopDemotingAll(_, _, _)
BeamLoopDemotingAll(note_heads, beams, beam_group_id) ==
    IF beams = <<>> THEN note_heads
    ELSE LET beam == beams[1]
             beamed_notes ==
                 {i \in 1..Len(note_heads) :
                     /\ beam[1] <= center_x(note_heads[i])
                     /\ center_x(note_heads[i]) <= beam[1] + beam[3]
                     /\ \/ Abs(note_heads[i].y - beam[2]) < 40
                        \/ Abs(note_heads[i].y + note_heads[i].height
                                 - beam[2]) < 40}
         IN  IF Cardinality(beamed_notes) >= 2
             THEN BeamLoopDemotingAll(
                      [i \in 1..Len(note_heads) |->
                          IF i \in beamed_notes
                          THEN [note_heads[i] EXCEPT
                                   !.is_beamed = TRUE,
                                   !.beam_group_id = <<beam_group_id>>,
                                   !.symbol_type = "eighth_note",
                                   !.note_duration = "EIGHTH"]
                          ELSE note_heads[i]],
                      Tail(beams), beam_group_id + 1)
             ELSE BeamLoopDemotingAll(note_heads, Tail(beams), beam_group_id)

RECURSIVE BeamLoop(_, _, _)
BeamLoop(note_heads, beams, beam_group_id) ==
    IF beams = <<>> THEN note_heads
    ELSE LET beam == beams[1]
             beamed_notes ==
                 {i \in 1..Len(note_heads) :
                     /\ beam[1] <= center_x(note_heads[i])
                     /\ center_x(note_heads[i]) <= beam[1] + beam[3]
                     /\ \/ Abs(note_heads[i].y - beam[2]) < 40
                        \/ Abs(note_heads[i].y + note_heads[i].height
                                 - beam[2]) < 40}
         IN  IF Cardinality(beamed_notes) >= 2
             THEN BeamLoop(
                      [i \in 1..Len(note_heads) |->
                          IF i \in beamed_notes
                          THEN [note_heads[i] EXCEPT
                                   !.is_beamed = TRUE,
                                   !.beam_group_id = <<beam_group_id>>,
                                   !.symbol_type =
                                       IF note_heads[i].note_duration = "QUARTER"
                                       THEN "eighth_note" ELSE @,
                                   !.note_duration =
                                       IF @ = "QUARTER" THEN "EIGHTH" ELSE @]
                          ELSE note_heads[i]],
                      Tail(beams), beam_group_id + 1)
             ELSE BeamLoop(note_heads, Tail(beams), beam_group_id)

associate_beams_with_notes(note_heads, beams) == BeamLoop(note_heads, beams, 0)

\* Accidental.NATURAL has the value of Accidental.NONE and is the same
\* member
detect_accidentals(cs, staff_list) ==
    LET symbol(c, type, accidental) ==
            <<MusicalSymbol(type, c.x, c.y, c.w, c.h,
                            StaffPositionOf(staff_list, c), "None",
                            accidental)>>
        found(c) ==
            IF c.area < 20 \/ c.area > 500 THEN <<>>
            ELSE IF c.w > 0 /\ 2 * c.w < c.h /\ c.h < 4 * c.w
            THEN IF c.peaks THEN symbol(c, "sharp", "SHARP") ELSE <<>>
            ELSE IF c.w > 0 /\ 3 * c.w < 2 * c.h /\ c.h < 3 * c.w
            THEN IF c.bottom_heavy THEN symbol(c, "flat", "FLAT") ELSE <<>>
            ELSE IF c.w > 0 /\ 9 * c.w < 5 * c.h /\ 5 * c.h < 14 * c.w
            THEN symbol(c, "natural", "NONE")
            ELSE <<>>
    IN  Flatten([i \in 1..Len(cs) |-> found(cs[i])])

detect_rests(cs, staff_list) ==
    LET symbol(c, type, duration) ==
            <<MusicalSymbol(type, c.x, c.y, c.w, c.h,
                            StaffPositionOf(staff_list, c), duration,
                            "NONE")>>
        found(c) ==
            IF c.area < 15 \/ c.area > 800 \/ c.w <= 0 THEN <<>>
            ELSE IF c.w <= 5 * c.h /\ 5 * c.h <= 3 * c.w /\ c.area < 200
            THEN symbol(c, "whole_rest", "WHOLE")
            ELSE IF 3 * c.w <= 10 * c.h /\ 10 * c.h <= 7 * c.w /\ c.area < 200
            THEN symbol(c, "half_rest", "HALF")
            ELSE IF 3 * c.w < 2 * c.h /\ c.h < 3 * c.w
            THEN symbol(c, "quarter_rest", "QUARTER")
            ELSE IF 6 * c.w < 5 * c.h /\ c.h < 2 * c.w
            THEN symbol(c, "eighth_rest", "EIGHTH")
            ELSE <<>>
    IN  Flatten([i \in 1..Len(cs) |-> found(cs[i])])

\* index of the note an accidental applies to, 0 for none: the nearest
\* note to its right, the first of equally near ones
\* a search that would take a head of any row
ClosestNoteAnyRow(note_heads, accidental) ==
    LET near == {i \in 1..Len(note_heads) :
                    /\ note_heads[i].x > accidental.x
                    /\ note_heads[i].x - accidental.x < 30}
    IN  IF near = {} THEN 0
        ELSE CHOOSE i \in near :
                \A j \in near :
                    \/ note_heads[i].x < note_heads[j].x
                    \/ note_heads[i].x = note_heads[j].x /\ i <= j

ClosestNote(note_heads, accidental) ==
    LET near == {i \in 1..Len(note_heads) :
                    /\ note_heads[i].x > accidental.x
                    /\ note_heads[i].x - accidental.x < 30
                    /\ Abs(center_y(note_heads[i]) - center_y(accidental)) < 15}
    IN  IF near = {} THEN 0
        ELSE CHOOSE i \in near :
                \A j \in near :
                    \/ note_heads[i].x < note_heads[j].x
                    \/ note_heads[i].x = note_heads[j].x /\ i <= j

RECURSIVE apply_accidentals_to_notes(_, _)
apply_accidentals_to_notes(note_heads, accidentals) ==
    IF accidentals = <<>> THEN note_heads
    ELSE LET closest_note == ClosestNote(note_heads, accidentals[1])
         IN  apply_accidentals_to_notes(
                 IF closest_note = 0 THEN note_heads
                 ELSE [note_heads EXCEPT ![closest_note].accidental =
                                            accidentals[1].accidental],
                 Tail(accidentals))

\* SymbolDetector.detect_symbols from line 718 on: the symbols it returns
detect_symbols(cs, v_lines, h_lines, staff_list, c) ==
    LET heads == detect_note_heads(cs, staff_list)
        with_stems == associate_stems_with_heads(heads, detect_stems(v_lines))
        with_beams == associate_beams_with_notes(with_stems,
                                                 detect_beams(h_lines))
        accidentals == detect_accidentals(cs, staff_list)
        with_accidentals == apply_accidentals_to_notes(with_beams, accidentals)
        rests == detect_rests(cs, staff_list)
        with_pitch ==
            [i \in 1..Len(with_accidentals) |->
                [with_accidentals[i] EXCEPT !.pitch =
                    <<apply_accidental_to_pitch(
                          calculate_pitch(with_accidentals[i], c),
                          with_accidentals[i].accidental)>>]]
    IN  SortSymbolsByX(with_pitch \o rests \o accidentals)

(***************************************************************************)
(* SheetMusicConverter.convert                                             *)
(***************************************************************************)
\* most contours findContours returns for one image
MaxContours == 2

PageHeight == 100

PageWidth == 40

\* a page with nothing on it
BlankPage == Image(PageHeight, PageWidth, {})

\* a page with one staff of 5 lines 20 rows apart
StaffPage(thick) ==
    Image(PageHeight, PageWidth,
          {<<y + d, x>> : y \in EvenRows(5, 10, 20), d \in 0..(thick - 1),
                          x \in 2..(PageWidth - 3)})

PageImages == { BlankPage } \cup { StaffPage(thick) : thick \in {1, 2} }

\* a filled oval of w by h whose centre row is centre
HeadContour(x, centre, w, h) ==
    Contour(x, centre - h \div 2, w, h, (3 * w * h) \div 4, TRUE, TRUE,
            FALSE, FALSE)

\* heads on the bottom line (row 90), in the space above it, below the
\* staff and on the middle line; a quarter rest, a sharp, a flat, a whole
\* rest and a speck
ContourChoices ==
    { HeadContour(8, 90, 12, 10), HeadContour(8, 90, 20, 16),
      HeadContour(8, 90, 12, 16), HeadContour(8, 90, 16, 12),
      HeadContour(8, 80, 12, 10), HeadContour(8, 95, 12, 10),
      HeadContour(14, 50, 12, 10),
      Contour(30, 40, 6, 15, 60, FALSE, FALSE, FALSE, FALSE),
      Contour(2, 84, 4, 13, 40, FALSE, FALSE, TRUE, FALSE),
      Contour(2, 85, 6, 10, 40, FALSE, FALSE, FALSE, TRUE),
      Contour(30, 48, 10, 4, 30, FALSE, FALSE, FALSE, FALSE),
      Contour(20, 20, 2, 2, 4, TRUE, TRUE, FALSE, FALSE) }

ContourLists ==
    UNION { {cs \in [1..n -> ContourChoices] :
                \A i, j \in 1..n : i # j => cs[i] # cs[j]}
            : n \in 0..MaxContours }

\* a stem that reaches the heads at x = 8 on row 90, a bar too wide for a
\* stem, and a stem that ends in the upper half of those heads
VerticalLineChoices ==
    { <<>>, << <<19, 60, 2, 30>> >>, << <<19, 60, 6, 30>> >>,
      << <<19, 57, 2, 30>> >> }

\* a beam over the heads at x = 8 and x = 14, and a beam over the head at
\* x = 14 alone followed by a long one
HorizontalLineChoices ==
    { <<>>, << <<0, 55, 38, 3>> >>,
      << <<16, 55, 15, 3>>, <<0, 58, 38, 3>> >> }

InitConvert ==
    /\ pc = "loaded"
    /\ arrays \in {<<img>> : img \in PageImages}
    /\ binary_image = 1
    /\ image_no_staff = 0
    /\ image_twice = 0
    /\ line_positions = <<>>
    /\ staves = <<>>
    /\ line_thickness = <<>>
    /\ ret_staves = <<>>
    /\ arg_y = -1
    /\ ret_staff_position = [staff |-> <<>>, position |-> <<>>]
    /\ arg_note_head = <<>>
    /\ clef \in {"treble", "bass"}
    /\ ret_pitch = <<>>
    /\ MidiIdle
    /\ NameIdle
    /\ TicksIdle
    /\ DetectIdle
    /\ BatchIdle

\* converter.py lines 80-84 on an image in which cv2 finds the contours cs
\* and the line boxes v_lines and h_lines
DetectSymbolsIn(cs, v_lines, h_lines) ==
    /\ pc = "removed"
    /\ contours' = cs
    /\ vertical_lines' = v_lines
    /\ horizontal_lines' = h_lines
    /\ symbols' = detect_symbols(cs, v_lines, h_lines, staves, clef)
    /\ pc' = IF symbols' = <<>> THEN "no_symbols" ELSE "start"
    /\ UNCHANGED <<ticks_per_beat, musical_events, event_groups, gi, track>>
    /\ UNCHANGED <<ret_time_signature, ret_key_signature>>
    /\ UNCHANGED <<nameVars, ticksVars, pitchVars, staffVars, batchVars>>

\* converter.py lines 80-84, the contours being what cv2 finds
DetectSymbols ==
    /\ pc = "removed"
    /\ \E cs \in ContourLists, v_lines \in VerticalLineChoices,
          h_lines \in HorizontalLineChoices :
          \* the pages with beams have the stem of full length or none
          /\ h_lines # <<>> => v_lines \in {<<>>, << <<19, 60, 2, 30>> >>}
          /\ DetectSymbolsIn(cs, v_lines, h_lines)

\* converter.py lines 86-90: symbols_to_midi([], output_midi_path)
EmptySymbolsToMidi ==
    /\ pc = "no_symbols"
    /\ track' = << Msg("track_name", 0, 0), Msg("set_tempo", 0, 0),
                   Msg("program_change", 0, 0), Msg("end_of_track", 0, 0) >>
    /\ pc' = "done"
    /\ UNCHANGED <<symbols, ticks_per_beat, musical_events, event_groups, gi>>
    /\ UNCHANGED notMidiVars

NextConvert ==
    \/ DetectStaves
    \/ RemoveStaffLines
    \/ DetectSymbols
    \/ EmptySymbolsToMidi
    \/ NextMidi

SpecConvert == InitConvert /\ [][NextConvert]_vars

\* the scene of the end-to-end scenario: one staff with lines 20 rows
\* apart, one contour, which is a note-head candidate whose centre row is
\* the bottom line, no stem, no beam, no accidental, treble clef
OneHeadOnBottomLine ==
    /\ pc = "done"
    /\ Len(staves) = 1
    /\ staves[1].line_spacing.num = 20 * staves[1].line_spacing.den
    /\ Len(contours) = 1
    /\ IsNoteHeadContour(contours[1])
    /\ contours[1].y + contours[1].h \div 2 = staves[1].lines[5]
    /\ detect_stems(vertical_lines) = <<>>
    /\ detect_beams(horizontal_lines) = <<>>
    /\ detect_accidentals(contours, staves) = <<>>
    /\ clef = "treble"

PitchedSymbols == SelectSeq(symbols, LAMBDA s : s.pitch # <<>>)

\* exactly one note event, a whole note E4, sounding 4 quarter notes
OneWholeNoteE4 ==
    /\ Len(PitchedSymbols) = 1
    /\ PitchedSymbols[1].symbol_type = "whole_note"
    /\ PitchedSymbols[1].pitch = <<PitchE4>>
    /\ PitchedSymbols[1].note_duration = "WHOLE"
    /\ CountType(track, "note_on", Len(track)) = 1
    /\ CountType(track, "note_off", Len(track)) = 1
    /\ \A i \in 1..Len(track) :
          /\ track[i].type = "note_on"
                => track[i].note = 64 /\ track[i].time = 0
          /\ track[i].type = "note_off"
                => track[i].note = 64 /\ track[i].time = 4 * ticks_per_beat

(***************************************************************************)
(* C7 as stated: for one staff of 5 lines 20 px apart and one filled       *)
(* note-head candidate centred on the bottom line, with no stem, no beam   *)
(* and no accidental, treble clef, convert outputs exactly one note event, *)
(* a whole note E4 of 4.0 quarter notes.                                   *)
(***************************************************************************)
C7_StemlessHeadIsWholeNote == OneHeadOnBottomLine => OneWholeNoteE4

(***************************************************************************)
(* C7 amended: the same, for a candidate whose bounding box is wider or    *)
(* taller than 15 px; a smaller stemless candidate is a half note.         *)
(***************************************************************************)
C7_LargeStemlessHeadIsWholeNote ==
    (OneHeadOnBottomLine /\ (contours[1].w > 15 \/ contours[1].h > 15))
        => OneWholeNoteE4

C7_Witness ==
    /\ OneHeadOnBottomLine
    /\ contours[1].w > 15
    /\ line_positions = <<10, 30, 50, 70, 90>>
    /\ \E i \in 1..Len(track) :
          track[i] = Msg("note_off", 64, 1920)

\* a symbol the assembler plays: a pitched note or one of the four rests
IsPlayed(s) ==
    \/ s.pitch # <<>>
    \/ s.symbol_type \in {"whole_rest", "half_rest", "quarter_rest",
                          "eighth_rest"}

\* the track holds meta and program-change messages at time 0 and then
\* end_of_track
MetadataOnly(trk) ==
    /\ Len(trk) >= 4
    /\ trk[Len(trk)].type = "end_of_track"
    /\ \A i \in 1..(Len(trk) - 1) :
          trk[i].type \in {"track_name", "set_tempo", "time_signature",
                           "program_change"}
    /\ \E i \in 1..(Len(trk) - 1) : trk[i].type = "program_change"
    /\ SumTimes(trk, 1, Len(trk)) = 0

\* C14: a symbol set with no pitched note and no rest, the empty one
\* included, gives a track of the meta and program-change messages followed
\* by end_of_track, with no note-on, no note-off and elapsed time 0; and
\* when no staff or no symbol was detected convert goes on to the next
\* stage (staff-line removal, symbol detection, the empty MIDI file, the
\* assembler's empty track or grouping) instead of stopping.
C14_NothingToPlay ==
    /\ (pc = "done" /\ \A i \in 1..Len(symbols) : ~IsPlayed(symbols[i]))
          => MetadataOnly(track)
    /\ (pc = "detected" /\ ret_staves = <<>>) => ENABLED RemoveStaffLines
    /\ (pc = "removed" /\ ret_staves = <<>>) => ENABLED DetectSymbols
    /\ pc = "no_symbols" => ENABLED EmptySymbolsToMidi
    /\ (pc = "collected" /\ staves = <<>>)
          => ENABLED (EmptyTrack \/ GroupEventsStep)

\* an accidental alone on a page without staff, and a page without symbols
C14_Witness ==
    /\ pc = "done"
    /\ staves = <<>>
    /\ Len(symbols) = 1
    /\ symbols[1].symbol_type = "sharp"
    /\ MetadataOnly(track)

\* a note head that got a note duration class
IsSoundingNote(s) ==
    /\ s.symbol_type \in {"whole_note", "half_note", "quarter_note",
                          "eighth_note", "sixteenth_note"}
    /\ s.note_duration \in {"WHOLE", "HALF", "QUARTER", "EIGHTH",
                            "SIXTEENTH"}

\* C15: in the symbols detect_symbols returned a symbol has its pitch set
\* if and only if it is a sounding note; every rest and every accidental
\* has its pitch unset; and the finished track holds one note-on and one
\* note-off for each symbol with pitch set and no other.
C15_PitchOnlyOnSoundingNotes ==
    /\ \A i \in 1..Len(symbols) :
          /\ symbols[i].pitch # <<>> <=> IsSoundingNote(symbols[i])
          /\ symbols[i].symbol_type \in
                {"whole_rest", "half_rest", "quarter_rest", "eighth_rest",
                 "sharp", "flat", "natural"} => symbols[i].pitch = <<>>
    /\ pc = "done" =>
          /\ CountType(track, "note_on", Len(track)) = Len(PitchedSymbols)
          /\ CountType(track, "note_off", Len(track)) = Len(PitchedSymbols)
          /\ \A k \in 1..Len(track) :
                track[k].type \in {"note_on", "note_off"} =>
                    \E i \in 1..Len(PitchedSymbols) :
                       track[k].note
                           = note_name_to_midi(PitchedSymbols[i].pitch[1])

\* a note, a rest and an accidental detected together
C15_Witness ==
    /\ pc = "done"
    /\ \E i, j \in 1..Len(symbols) :
          /\ IsSoundingNote(symbols[i])
          /\ symbols[j].symbol_type \in {"quarter_rest", "sharp", "flat"}
    /\ CountType(track, "note_on", Len(track)) = 1

\* C17: the pitched notes and the rests, in ascending x, are cut into
\* groups anchored at their first event: an event is in the group of the
\* anchor before it exactly when it is at most time_threshold to the right
\* of that anchor, and the first event beyond that starts the next group;
\* every event is in exactly one group and the groups keep the x order.
C17_GroupsAnchoredAtFirstEvent ==
    pc \in {"emit", "done"} /\ musical_events # <<>> =>
        /\ \A e \in 1..(Len(musical_events) - 1) :
              musical_events[e].sym.x <= musical_events[e + 1].sym.x
        /\ \A i \in 1..Len(symbols) :
              IsPlayed(symbols[i]) <=>
                  \E e \in 1..Len(musical_events) :
                     musical_events[e].sym = symbols[i]
        /\ Flatten(event_groups) = musical_events
        /\ \A g \in 1..Len(event_groups) :
              /\ event_groups[g] # <<>>
              /\ \A e \in 1..Len(event_groups[g]) :
                    event_groups[g][e].sym.x - event_groups[g][1].sym.x
                        <= time_threshold
              /\ g > 1 =>
                    event_groups[g][1].sym.x - event_groups[g - 1][1].sym.x
                        > time_threshold

\* events at x = 100, 105 and 125: the third is time_threshold from the
\* second and beyond it from the anchor, and opens a group of its own
C17_Witness ==
    /\ pc = "done"
    /\ Len(musical_events) = 3
    /\ musical_events[1].sym.x = 100
    /\ musical_events[2].sym.x = 105
    /\ musical_events[3].sym.x = 125
    /\ Len(event_groups) = 2
    /\ Len(event_groups[1]) = 2

\* some stem of the page is less than one head-width from the head's x
\* and is joined to the head as Joined(head, top, bottom) says
SomeStemBelongs(head, Joined(_, _, _)) ==
    \E i \in 1..Len(detect_stems(vertical_lines)) :
        LET stem == detect_stems(vertical_lines)[i]
        IN  /\ Abs(stem[1] - head.x) < head.width
            /\ Joined(head, stem[2], stem[2] + stem[4])

\* the stem's span holds the head's centre-y or the head's bottom edge
SpanHoldsCentreOrBottomEdge(head, top, bottom) ==
    \/ top <= center_y(head) /\ center_y(head) <= bottom
    \/ top <= head.y + head.height /\ head.y + head.height <= bottom

\* the stem's span holds the head's centre-y or the stem ends inside the
\* head's rows
SpanHoldsCentreOrEndsInHead(head, top, bottom) ==
    \/ top <= center_y(head) /\ center_y(head) <= bottom
    \/ head.y <= bottom /\ bottom <= head.y + head.height

\* on a page without beams the heads come out of detect_symbols with the
\* duration the stem stage gave them
StemStageGives(Joined(_, _, _)) ==
    \* the symbols as detect_symbols has just returned them
    pc = "start" =>
        \A i \in 1..Len(symbols) :
            symbols[i].pitch # <<>> =>
                /\ symbols[i].note_duration
                      \in {"WHOLE", "HALF", "QUARTER", "EIGHTH", "SIXTEENTH"}
                /\ horizontal_lines = <<>> =>
                      /\ symbols[i].note_duration =
                            IF SomeStemBelongs(symbols[i], Joined) THEN "QUARTER"
                            ELSE IF symbols[i].width > 15
                                      \/ symbols[i].height > 15
                                 THEN "WHOLE" ELSE "HALF"
                      /\ symbols[i].symbol_type =
                            NoteSymbolType(symbols[i].note_duration)

\* C22 as stated: every head gets a duration, quarter exactly when some
\* stem is within one head-width of the head's x and the stem's vertical
\* span overlaps the head's centre-y or the head's bottom edge, otherwise
\* whole if the head's width or height exceeds 15 px, else half.
C22_StemOverBottomEdge == StemStageGives(SpanHoldsCentreOrBottomEdge)

\* C22 amended: every head gets a duration, quarter exactly when some
\* stem is less than one head-width from the head's x and the stem's
\* vertical span holds the head's centre-y or the stem's lower end lies
\* within the head's rows y .. y + height, otherwise whole if the head's
\* width or height exceeds 15 px, else half; none is left without a
\* duration and none gets eighth or sixteenth at this stage.
C22_StemEndsInHead == StemStageGives(SpanHoldsCentreOrEndsInHead)

\* a stem that ends in the upper half of a head, which becomes a quarter,
\* beside a small head that no stem reaches, which becomes a half
C22_Witness ==
    /\ pc = "done"
    /\ horizontal_lines = <<>>
    /\ vertical_lines = << <<19, 57, 2, 30>> >>
    /\ \E i \in 1..Len(symbols) :
          /\ symbols[i].y = 85
          /\ symbols[i].note_duration = "QUARTER"
    /\ \E i \in 1..Len(symbols) :
          /\ symbols[i].pitch # <<>>
          /\ symbols[i].note_duration = "HALF"

\* the beams of the page and the heads each of them reaches
BeamsOfPage == detect_beams(horizontal_lines)

Reaches(k, head) ==
    /\ BeamsOfPage[k][1] <= center_x(head)
    /\ center_x(head) <= BeamsOfPage[k][1] + BeamsOfPage[k][3]
    /\ \/ Abs(head.y - BeamsOfPage[k][2]) < 40
       \/ Abs(head.y + head.height - BeamsOfPage[k][2]) < 40

\* beam k reaches at least 2 heads
JoinsHeads(k) ==
    Cardinality({i \in 1..Len(symbols) :
                    symbols[i].pitch # <<>> /\ Reaches(k, symbols[i])}) >= 2

\* the duration the stem stage gave the head
StemStageDuration(head) ==
    IF SomeStemBelongs(head, SpanHoldsCentreOrEndsInHead) THEN "QUARTER"
    ELSE IF head.width > 15 \/ head.height > 15 THEN "WHOLE" ELSE "HALF"

\* C23: a beam that reaches at least 2 heads gives them all one shared
\* beam-group id and is_beamed = true and makes exactly the quarters among
\* them eighths; whole and half heads keep their duration; a beam that
\* reaches fewer than 2 heads changes no head; after all beams no head's
\* duration is longer than before.
C23_BeamsDemoteQuarters ==
    \* the symbols as detect_symbols has just returned them
    pc = "start" =>
        \A i \in 1..Len(symbols) :
            symbols[i].pitch # <<>> =>
                LET head == symbols[i]
                    joining == {k \in 1..Len(BeamsOfPage) :
                                   JoinsHeads(k) /\ Reaches(k, head)}
                    last == CHOOSE k \in joining : \A j \in joining : j <= k
                    id == Cardinality({j \in 1..(last - 1) : JoinsHeads(j)})
                    before == StemStageDuration(head)
                IN  IF joining = {}
                    THEN /\ head.is_beamed = FALSE
                         /\ head.beam_group_id = <<>>
                         /\ head.note_duration = before
                    ELSE /\ head.is_beamed = TRUE
                         /\ head.beam_group_id = <<id>>
                         /\ \A j \in 1..Len(symbols) :
                               (symbols[j].pitch # <<>> /\ Reaches(last, symbols[j]))
                                   => symbols[j].beam_group_id = <<id>>
                         /\ head.note_duration =
                               IF before = "QUARTER" THEN "EIGHTH" ELSE before
                         /\ NoteDurationValue16(head.note_duration)
                               <= NoteDurationValue16(before)

\* a quarter and a half under one beam: the quarter becomes an eighth, the
\* half stays a half, both carry the group id 0
C23_Witness ==
    /\ pc = "done"
    /\ Len(BeamsOfPage) = 1
    /\ \E i, j \in 1..Len(symbols) :
          /\ symbols[i].note_duration = "EIGHTH"
          /\ symbols[j].note_duration = "HALF"
          /\ symbols[i].beam_group_id = <<0>>
          /\ symbols[j].beam_group_id = <<0>>
          /\ symbols[j].is_beamed

\* the accidentals of the page, in the order they were found
AccidentalsOfPage == detect_accidentals(contours, staves)

\* the head is to the right of the accidental, less than 30 px from it
\* horizontally and less than 15 px from it vertically, centre to centre
Qualifies(head, accidental) ==
    /\ head.x > accidental.x
    /\ head.x - accidental.x < 30
    /\ Abs(center_y(head) - center_y(accidental)) < 15

\* no qualifying head of the accidental is nearer than this one
IsNearest(head, accidental) ==
    /\ Qualifies(head, accidental)
    /\ \A j \in 1..Len(symbols) :
          (symbols[j].pitch # <<>> /\ Qualifies(symbols[j], accidental))
              => head.x <= symbols[j].x

detect_time_signature(img, staff_list) ==
    IF staff_list = <<>> THEN [numerator |-> 4, denominator |-> 4]
    ELSE LET first_staff == staff_list[1]
             search_x_start == first_staff.x_start
             search_x_end == Min2(first_staff.x_start + 150, first_staff.x_end)
             search_y_start == first_staff.lines[1] - 10
             search_y_end == first_staff.lines[5] + 10
         IN  IF /\ search_x_end > search_x_start
                /\ search_y_end > search_y_start
                /\ search_x_start >= 0 /\ search_y_start >= 0
                /\ search_x_end <= img.width /\ search_y_end <= img.height
             THEN [numerator |-> 4, denominator |-> 4]
             ELSE [numerator |-> 4, denominator |-> 4]

\* a detector that would always answer the default key signature
detect_key_signature_default(img, staff_list, cs) ==
    [sharps |-> 0, flats |-> 0]

\* SymbolDetector.detect_key_signature, cs being the contours of the region
detect_key_signature(img, staff_list, cs) ==
    IF staff_list = <<>> THEN [sharps |-> 0, flats |-> 0]
    ELSE LET first_staff == staff_list[1]
             search_x_start == first_staff.x_start + 20
             search_x_end == Min2(first_staff.x_start + 200, first_staff.x_end)
             search_y_start == first_staff.lines[1]
             search_y_end == first_staff.lines[5]
             counted == {i \in 1..Len(cs) : 20 < cs[i].area /\ cs[i].area < 300}
             \* aspect_ratio = h / w if w > 0 else 0
             tall == {i \in counted :
                         /\ cs[i].w > 0
                         /\ cs[i].h > 2 * cs[i].w
                         /\ cs[i].h < 4 * cs[i].w}
             rounded == {i \in counted \ tall :
                            /\ cs[i].w > 0
                            /\ 2 * cs[i].h > 3 * cs[i].w
                            /\ cs[i].h < 3 * cs[i].w}
         IN  IF /\ search_x_end > search_x_start
                /\ search_y_end > search_y_start
                /\ search_x_start >= 0 /\ search_y_start >= 0
                /\ search_x_end <= img.width /\ search_y_end <= img.height
             THEN [sharps |-> Cardinality(tall),
                   flats |-> Cardinality(rounded)]
             ELSE [sharps |-> 0, flats |-> 0]

\* contours cv2 may find between the lines of the staff: a tall narrow mark,
\* a squat mark, a mark twice as high as wide, a piece of a staff line, a
\* mark of area 300 and a speck
KeyRegionContours ==
    { Contour(24, 32, 4, 9, 24, FALSE, FALSE, FALSE, FALSE),
      Contour(30, 52, 5, 8, 28, FALSE, FALSE, FALSE, FALSE),
      Contour(24, 72, 4, 8, 21, FALSE, FALSE, FALSE, FALSE),
      Contour(22, 30, 15, 1, 0, FALSE, FALSE, FALSE, FALSE),
      Contour(22, 11, 13, 19, 300, FALSE, FALSE, FALSE, FALSE),
      Contour(26, 15, 3, 7, 12, FALSE, FALSE, FALSE, FALSE) }

\* the detectors are built and a page or a narrow image is loaded
InitSignature ==
    /\ pc = "loaded"
    /\ arrays \in {<<img>> : img \in PageImages \cup
                     {StaffImage(layout, 1, extent, {}) :
                         layout \in LineLayouts, extent \in LineExtents}}
    /\ binary_image = 1
    /\ image_no_staff = 0
    /\ image_twice = 0
    /\ line_positions = <<>>
    /\ staves = <<>>
    /\ line_thickness = <<>>
    /\ ret_staves = <<>>
    /\ arg_y = -1
    /\ ret_staff_position = [staff |-> <<>>, position |-> <<>>]
    /\ MidiIdle
    /\ NameIdle
    /\ TicksIdle
    /\ PitchIdle
    /\ DetectIdle
    /\ BatchIdle

\* line 711, and the same call made before any staff was detected
DetectTimeSignature ==
    /\ pc \in {"loaded", "detected"}
    /\ ret_time_signature' =
          <<detect_time_signature(arrays[binary_image], staves)>>
    /\ pc' = "time_done"
    /\ UNCHANGED <<contours, vertical_lines, horizontal_lines,
                   ret_key_signature>>
    /\ UNCHANGED <<midiVars, nameVars, ticksVars, pitchVars, staffVars,
                   batchVars>>

\* line 712
DetectKeySignature ==
    /\ pc = "time_done"
    /\ \E n \in 0..MaxContours :
          \E cs \in [1..n -> KeyRegionContours] :
              /\ contours' = cs
              /\ ret_key_signature' =
                    <<detect_key_signature(arrays[binary_image], staves, cs)>>
    /\ pc' = "key_done"
    /\ UNCHANGED <<vertical_lines, horizontal_lines, ret_time_signature>>
    /\ UNCHANGED <<midiVars, nameVars, ticksVars, pitchVars, staffVars,
                   batchVars>>

NextSignature == DetectStaves \/ DetectTimeSignature \/ DetectKeySignature

SpecSignature == InitSignature /\ [][NextSignature]_vars

\* the region searched for the key signature lies inside the image
KeyRegionInImage ==
    /\ staves # <<>>
    /\ Min2(staves[1].x_start + 200, staves[1].x_end) > staves[1].x_start + 20
    /\ staves[1].lines[5] > staves[1].lines[1]
    /\ Min2(staves[1].x_start + 200, staves[1].x_end)
          <= arrays[binary_image].width
    /\ staves[1].lines[5] <= arrays[binary_image].height

\* contours[i] has an area between 20 and 300 and 2 * h / w between lo and hi
Shaped(i, lo, hi) ==
    /\ contours[i].area > 20 /\ contours[i].area < 300
    /\ 2 * contours[i].h > lo * contours[i].w
    /\ 2 * contours[i].h < hi * contours[i].w

\* C26 as stated: both detectors return a value unconditionally, and that
\* value is always the default, time signature 4/4 and key signature with
\* 0 sharps and 0 flats, for every image and every staff state.
C26_AlwaysDefault ==
    /\ pc \in {"time_done", "key_done"} =>
          ret_time_signature = <<[numerator |-> 4, denominator |-> 4]>>
    /\ pc = "key_done" => ret_key_signature = <<[sharps |-> 0, flats |-> 0]>>

\* C26 amended: both detectors return a value unconditionally; the time
\* signature is always the default 4/4; the key signature is the default
\* (0 sharps, 0 flats) when no staff is stored or the searched region does
\* not lie inside the image, and otherwise counts, among the contours of the
\* region with an area between 20 and 300, those with height / width
\* between 2 and 4 as sharps and the others with height / width between 1.5
\* and 3 as flats.
C26_KeySignatureCountsMarks ==
    /\ pc \in {"time_done", "key_done"} =>
          ret_time_signature = <<[numerator |-> 4, denominator |-> 4]>>
    /\ pc = "key_done" =>
          /\ Len(ret_key_signature) = 1
          /\ ~KeyRegionInImage =>
                ret_key_signature[1] = [sharps |-> 0, flats |-> 0]
          /\ KeyRegionInImage =>
                /\ ret_key_signature[1].sharps =
                      Cardinality({i \in 1..Len(contours) : Shaped(i, 4, 8)})
                /\ ret_key_signature[1].flats =
                      Cardinality({i \in 1..Len(contours) :
                                      Shaped(i, 3, 6) /\ ~Shaped(i, 4, 8)})

\* a page whose key region holds a tall narrow mark and a squat one
C26_Witness ==
    /\ pc = "key_done"
    /\ ret_time_signature = <<[numerator |-> 4, denominator |-> 4]>>
    /\ Len(contours) = 2
    /\ ret_key_signature = <<[sharps |-> 1, flats |-> 1]>>

(***************************************************************************)
(* MidiGenerator.duration_to_ticks called on a generator constructed with  *)
(* a ticks_per_beat of the caller's choice                                 *)
(***************************************************************************)
MaxTicksPerBeat == 24

\* the members of NoteDuration, and None
Durations == {"WHOLE", "HALF", "QUARTER", "EIGHTH", "SIXTEENTH", "None"}

InitTicks ==
    /\ pc = "ticks_call"
    /\ arg_duration \in Durations
    /\ ret_ticks = -1
    /\ ticks_per_beat \in (1..MaxTicksPerBeat) \cup {96, 480}
    /\ symbols = <<>>
    /\ musical_events = <<>>
    /\ event_groups = <<>>
    /\ gi = 0
    /\ track = <<>>
    /\ NameIdle
    /\ PitchIdle
    /\ StaffIdle
    /\ DetectIdle
    /\ BatchIdle

DurationToTicks ==
    /\ pc = "ticks_call"
    /\ ret_ticks' = duration_to_ticks(arg_duration, ticks_per_beat)
    /\ pc' = "ticks_done"
    /\ UNCHANGED <<arg_duration, midiVars, nameVars, pitchVars, staffVars,
                   detectVars, batchVars>>

NextTicks == DurationToTicks

SpecTicks == InitTicks /\ [][NextTicks]_vars

\* C18: duration_to_ticks returns the integer nearest to
\* duration.value * ticks_per_beat (either neighbour at a tie), a missing
\* duration counting as a quarter: 4 * ret_ticks is at most 2 away from
\* the value in sixteenths times ticks_per_beat.
C18_TicksAreRounded ==
    pc = "ticks_done" =>
        LET d == IF arg_duration = "None" THEN "QUARTER" ELSE arg_duration
        IN  2 * Abs(4 * ret_ticks - NoteDurationValue16(d) * ticks_per_beat)
                <= 4

(***************************************************************************)
(* SheetMusicConverter.batch_convert (converter.py lines 106-157): one     *)
(* converter, and so one StaffDetector and one SymbolDetector, converts    *)
(* the image files in turn.  An image file is what cv2.imread and          *)
(* cv2.findContours make of it: whether it can be read, the binary image   *)
(* the preprocessing pipeline returns, and the contours and line boxes     *)
(* found in the image without staff lines.                                 *)
(***************************************************************************)
MaxFiles == 2

ImageFile(base_name, readable, image, cs, v_lines, h_lines) ==
    [ base_name |-> base_name, readable |-> readable, image |-> image,
      contours |-> cs, vertical_lines |-> v_lines,
      horizontal_lines |-> h_lines ]

\* a file that is no image; a staff with a stemmed head on its bottom line
\* and a quarter rest; an empty page with a head where that bottom line
\* would be; a staff with nothing on it; a staff of thick lines with a
\* sharp and no note, whose name is the same as the first staff's in
\* another directory
FileChoices ==
    { ImageFile("broken", FALSE, BlankPage, <<>>, <<>>, <<>>),
      ImageFile("tune", TRUE, StaffPage(1),
                << HeadContour(8, 90, 12, 10),
                   Contour(30, 40, 6, 15, 60, FALSE, FALSE, FALSE, FALSE) >>,
                << <<19, 60, 2, 30>> >>, <<>>),
      ImageFile("blank", TRUE, BlankPage, << HeadContour(8, 90, 12, 10) >>,
                <<>>, <<>>),
      ImageFile("empty", TRUE, StaffPage(1), <<>>, <<>>, <<>>),
      ImageFile("tune", TRUE, StaffPage(2),
                << Contour(2, 84, 4, 13, 40, FALSE, FALSE, TRUE, FALSE) >>,
                <<>>, <<>>) }

FileLists == UNION { [1..n -> FileChoices] : n \in 0..MaxFiles }

\* SheetMusicConverter.__init__ followed by the call of batch_convert
InitBatch ==
    /\ pc = "batch"
    /\ image_files \in FileLists
    /\ file_index = 1
    /\ output_files = <<>>
    /\ midi_files = <<>>
    /\ all_symbols = <<>>
    /\ StaffIdle
    /\ MidiIdle
    /\ NameIdle
    /\ TicksIdle
    /\ PitchIdle
    /\ DetectIdle

\* convert, line 60: the image is read and preprocessed
LoadImage ==
    /\ pc = "batch"
    /\ file_index <= Len(image_files)
    /\ image_files[file_index].readable
    /\ arrays' = Append(arrays, image_files[file_index].image)
    /\ binary_image' = Len(arrays) + 1
    /\ pc' = "loaded"
    /\ UNCHANGED <<image_no_staff, image_twice, line_positions, staves,
                   line_thickness, ret_staves, arg_y, ret_staff_position>>
    /\ UNCHANGED <<midiVars, nameVars, ticksVars, pitchVars, detectVars,
                   batchVars>>

\* an except clause that would leave the loop instead of continuing
ConvertRaisesAndStops ==
    /\ pc = "batch"
    /\ file_index <= Len(image_files)
    /\ ~image_files[file_index].readable
    /\ file_index' = Len(image_files) + 1
    /\ UNCHANGED <<pc, image_files, output_files, midi_files, all_symbols>>
    /\ UNCHANGED <<midiVars, nameVars, ticksVars, pitchVars, staffVars,
                   detectVars>>

\* load_image raises ValueError (image_processor.py lines 26-28), which
\* batch_convert catches at lines 149-151
ConvertRaises ==
    /\ pc = "batch"
    /\ file_index <= Len(image_files)
    /\ ~image_files[file_index].readable
    /\ file_index' = file_index + 1
    /\ UNCHANGED <<pc, image_files, output_files, midi_files, all_symbols>>
    /\ UNCHANGED <<midiVars, nameVars, ticksVars, pitchVars, staffVars,
                   detectVars>>

\* convert, lines 80-84, on the current image file
DetectSymbolsOfFile ==
    LET file == image_files[file_index]
    IN  DetectSymbolsIn(file.contours, file.vertical_lines,
                        file.horizontal_lines)

\* MidiFile.save(output_path) as a change of the file system
Saved(files, path, content) ==
    [p \in DOMAIN files \cup {path} |->
        IF p = path THEN content ELSE files[p]]

\* the track is saved under the image's base name and convert returns;
\* batch_convert line 148
ConvertReturns ==
    /\ pc = "done"
    /\ midi_files' = Saved(midi_files, image_files[file_index].base_name,
                           track)
    /\ output_files' = Append(output_files,
                              image_files[file_index].base_name)
    /\ file_index' = file_index + 1
    /\ pc' = "batch"
    /\ UNCHANGED <<image_files, all_symbols>>
    /\ UNCHANGED <<midiVars, nameVars, ticksVars, pitchVars, staffVars,
                   detectVars>>

\* batch_convert line 157
BatchReturns ==
    /\ pc = "batch"
    /\ file_index > Len(image_files)
    /\ pc' = "returned"
    /\ UNCHANGED <<midiVars, nameVars, ticksVars, pitchVars, staffVars,
                   detectVars, batchVars>>

NextBatch ==
    \/ LoadImage
    \/ ConvertRaises
    \/ DetectStaves
    \/ RemoveStaffLines
    \/ DetectSymbolsOfFile
    \/ EmptySymbolsToMidi
    \/ NextMidi
    \/ ConvertReturns
    \/ BatchReturns

SpecBatch == InitBatch /\ [][NextBatch]_vars

\* C11: after every call of detect_staves on a detector instance, whatever
\* images the instance processed before, the staves the detector stores
\* are the staves the call returned.
C11_StoredStavesAreReturned ==
    pc = "detected" => staves = ret_staves

\* the output paths of the image files that can be read, in order
RECURSIVE ReadablePaths(_)
ReadablePaths(files) ==
    IF files = <<>> THEN <<>>
    ELSE IF files[1].readable
         THEN <<files[1].base_name>> \o ReadablePaths(Tail(files))
         ELSE ReadablePaths(Tail(files))

\* C13: in batch_convert an image that cannot be loaded ends the conversion
\* of that image only: the loop goes on to the last image, every image that
\* can be read is converted and saved, and the list returned holds, in
\* processing order, the output paths of exactly those images.
C13_BatchSkipsFailedImages ==
    pc = "returned" =>
        /\ file_index = Len(image_files) + 1
        /\ output_files = ReadablePaths(image_files)
        /\ \A k \in 1..Len(image_files) :
              image_files[k].readable =>
                  image_files[k].base_name \in DOMAIN midi_files
        /\ Len(arrays) = 2 * Len(output_files)

C13_Witness ==
    /\ pc = "returned"
    /\ Len(image_files) = 2
    /\ ~image_files[1].readable
    /\ image_files[2].readable
    /\ output_files = << image_files[2].base_name >>

(***************************************************************************)
(* SheetMusicConverter.convert_multipage (converter.py lines 159-256): the *)
(* pages go through the same detectors one after the other, the symbols of *)
(* page page_num are moved right by page_num * 2000 and one polyphonic     *)
(* pass turns all of them into one track.                                  *)
(***************************************************************************)
MaxPages == 2

\* a scan wider than 2000 px with nothing but one head, near column 2000
\* or beyond it
WidePage(x) ==
    ImageFile("wide", TRUE, Image(PageHeight, 2200, {}),
              << HeadContour(x, 90, 12, 10) >>, <<>>, <<>>)

PageChoices == FileChoices \cup { WidePage(1990), WidePage(2100) }

PageLists == UNION { [1..n -> PageChoices] : n \in 0..MaxPages }

\* SheetMusicConverter.__init__ followed by the call of convert_multipage
InitMultipage ==
    /\ pc = "page"
    /\ image_files \in PageLists
    /\ file_index = 1
    /\ output_files = <<>>
    /\ midi_files = <<>>
    /\ all_symbols = <<>>
    /\ StaffIdle
    /\ MidiIdle
    /\ NameIdle
    /\ TicksIdle
    /\ PitchIdle
    /\ DetectIdle

\* line 185: the page is read and preprocessed
LoadPage ==
    /\ pc = "page"
    /\ file_index <= Len(image_files)
    /\ image_files[file_index].readable
    /\ arrays' = Append(arrays, image_files[file_index].image)
    /\ binary_image' = Len(arrays) + 1
    /\ pc' = "loaded"
    /\ UNCHANGED <<image_no_staff, image_twice, line_positions, staves,
                   line_thickness, ret_staves, arg_y, ret_staff_position>>
    /\ UNCHANGED <<midiVars, nameVars, ticksVars, pitchVars, detectVars,
                   batchVars>>

\* line 185: load_image raises ValueError, which nothing catches
LoadPageRaises ==
    /\ pc = "page"
    /\ file_index <= Len(image_files)
    /\ ~image_files[file_index].readable
    /\ pc' = "raised"
    /\ UNCHANGED <<midiVars, nameVars, ticksVars, pitchVars, staffVars,
                   detectVars, batchVars>>

\* lines 226-227: symbol.x += page_offset
OffsetSymbols(page_symbols, page_offset) ==
    [k \in 1..Len(page_symbols) |->
        [page_symbols[k] EXCEPT !.x = page_symbols[k].x + page_offset]]

\* lines 215-232: the page's symbols are detected, moved and collected
AddPageSymbols ==
    /\ pc = "removed"
    /\ LET file == image_files[file_index]
           page_symbols == detect_symbols(file.contours, file.vertical_lines,
                                          file.horizontal_lines, staves, clef)
       IN  /\ contours' = file.contours
           /\ vertical_lines' = file.vertical_lines
           /\ horizontal_lines' = file.horizontal_lines
           /\ all_symbols' =
                  IF page_symbols # <<>>
                  THEN all_symbols
                         \o OffsetSymbols(page_symbols, file_index * 2000)
                  ELSE all_symbols
    /\ file_index' = file_index + 1
    /\ pc' = "page"
    /\ UNCHANGED <<image_files, output_files, midi_files>>
    /\ UNCHANGED <<ret_time_signature, ret_key_signature>>
    /\ UNCHANGED <<midiVars, nameVars, ticksVars, pitchVars, staffVars>>

\* lines 239-243: symbols_to_midi([], output_midi_path)
NoSymbolsToMidi ==
    /\ pc = "page"
    /\ file_index > Len(image_files)
    /\ all_symbols = <<>>
    /\ track' = << Msg("track_name", 0, 0), Msg("set_tempo", 0, 0),
                   Msg("program_change", 0, 0), Msg("end_of_track", 0, 0) >>
    /\ pc' = "done"
    /\ UNCHANGED <<symbols, ticks_per_beat, musical_events, event_groups, gi>>
    /\ UNCHANGED notMidiVars

\* lines 246-247: symbols_to_midi_polyphonic(all_symbols, output_midi_path)
AllSymbolsToMidi ==
    /\ pc = "page"
    /\ file_index > Len(image_files)
    /\ all_symbols # <<>>
    /\ symbols' = all_symbols
    /\ pc' = "start"
    /\ UNCHANGED <<ticks_per_beat, musical_events, event_groups, gi, track>>
    /\ UNCHANGED notMidiVars

NextMultipage ==
    \/ LoadPage
    \/ LoadPageRaises
    \/ DetectStaves
    \/ RemoveStaffLines
    \/ AddPageSymbols
    \/ NoSymbolsToMidi
    \/ AllSymbolsToMidi
    \/ NextMidi

SpecMultipage == InitMultipage /\ [][NextMultipage]_vars

\* the events of the page that the step adds to all_symbols
AddedEvents ==
    CollectMusicalEvents(SubSeq(all_symbols', Len(all_symbols) + 1,
                                Len(all_symbols')))

\* C12: when the moved symbols of a page join all_symbols, every event of
\* the pages before it has a smaller x than every event of the page, and
\* none of the page's events lies within time_threshold of one of them.
C12_PagesDoNotInterleave ==
    [][ \A k \in 1..Len(CollectMusicalEvents(all_symbols)) :
          \A n \in 1..Len(AddedEvents) :
             CollectMusicalEvents(all_symbols)[k].sym.x + time_threshold
                < AddedEvents[n].sym.x ]_vars

====
